---- MODULE Spec2Model ----
(***************************************************************************)
(* Model of the NBA projection repository: the injury-status resolver,     *)
(* the player eligibility / impact filter, the injury merge step, the      *)
(* rest and pace adjusters, the performance-log updater and the two slate  *)
(* orchestrators.                                                          *)
(*                                                                         *)
(* Numbers are fixed point.  Ratings, usage, net rating and final impacts  *)
(* are in tenths; intermediate products keep the exact scale noted at each *)
(* definition, and round(x, n) is round-half-even on the exact value.      *)
(* Status strings are sequences of one-character strings.                  *)
(***************************************************************************)
EXTENDS Integers, Sequences, FiniteSets, TLC

VARIABLES
    inj_called,     \* process_injury_status has been called
    inj_input,      \* the raw status string of that call
    inj_result,     \* the dict it returned
    pl_called,      \* process_player has been called
    pl_input,       \* its player_stats dict and keyword arguments
    pl_result,      \* the player impact object it returned
    mg_called,      \* steps 2 and 5 have run for a team
    mg_input,       \* the fetched injuries, the player impacts and the toggle
    mg_report,      \* the injury report step 2 returned
    mg_result,      \* the adjustments step 5 returned
    adj_called,     \* which optional module has been called: none, rest, pace
    rest_input,     \* arguments of apply_rest_adjustment and the provider's data
    rest_result,    \* the dict apply_rest_adjustment returned
    rest_fetches,   \* number of game-log requests the rest module has made
    pace_input,     \* arguments of apply_pace_adjustment
    pace_result,    \* the dict apply_pace_adjustment returned
    log_exists,     \* model_performance_log.csv exists
    log_header,     \* the header rows at the top of the file
    log_rows,       \* its data rows, in file order
    log_runs,       \* runs of update_performance_log so far
    log_last,       \* how the last run ended and what it counted
    pa_pc,          \* position in MasterProjectionEngine.project_all_games
    pa_tracking,    \* PERFORMANCE_TRACKING_ENABLED
    pa_matchups,    \* the slate get_todays_games returned
    pa_idx,         \* number of matchups the loop has taken
    pa_all_projections, \* all_projections, each result named by its matchup
    pa_failed,      \* positions of the matchups whose pipeline raised
    pa_summary,     \* the results print_summary was given
    pa_saved,       \* the games this run passed to save_predictions
    pipe_status,    \* run_full_pipeline: idle, running, returned, raised
    pipe_pc,        \* its next statement
    pipe_trace,     \* the steps it has completed for the current matchup
    sm_pc,          \* position in NBAStatisticalModel.project_all_games
    sm_schedule,    \* the schedule get_todays_schedule returned
    sm_idx,         \* number of games the loop has completed
    sm_projections, \* projections, each named by its game
    lg_constructed, \* a PerformanceLogger has been constructed
    lg_calls,       \* calls of log_performance so far
    lg_last_row,    \* the row_dict of the last call
    lg_last_outcome, \* how the last call ended: none, logged, raised
    ev_op,          \* which function of the outcome fetcher was called
    ev_input,       \* its arguments
    ev_result,      \* what it returned
    s1_pc,          \* where the baseline load of one team stands
    td_calls,       \* the get_team_dashboard calls made, the last one maybe running
    s1_season,      \* season_data, once fetched
    s1_last5,       \* last5_data, once fetched
    s1_baseline,    \* what step_1_load_baseline_stats returned
    s1_error,       \* the exception that left it
    sm_answers,     \* what the provider answered to pull_team_data's requests
    sm_team_data,   \* what pull_team_data returned
    sm_adjusted,    \* what stage1_recency_weighting returned
    pj_called,      \* step_7_project_game has been called
    pj_input,       \* its arguments
    pj_result,      \* the projection it returned
    s3_pc,          \* where step_3_get_player_impacts is
    s3_roster,      \* the roster rows the provider returned
    s3_idx,         \* the roster rows the loop has been through
    s3_outcomes,    \* what happened for each of them
    s3_player_impacts,  \* player_impacts
    s3_step,        \* the last step the team has completed
    s3_team_impacts, \* what step 4 handed to steps 5 and 6
    s3_events,      \* the requests step 3 sent and the sleeps it took, in order
    ar_files,       \* the archive: for each date its file, if any
    ar_today,       \* the current day
    ar_runs,        \* the runs of the engine that saved so far
    rs_pc,          \* where fetch_team_roster_stats is
    rs_team_players,  \* the rows of the team
    rs_idx,         \* the rows the loop has been through
    rs_roster_stats,  \* roster_stats
    rs_events,      \* the requests it sent and the sleeps it took, in order
    s8_called,      \* step_8_apply_rest_adjustment has been called
    s8_input,       \* its arguments and what the provider answered
    s8_result,      \* what it returned
    ep_called,      \* the inner try of step 3 has run for a player
    ep_input,       \* the season row and the position of the player
    ep_estimate,    \* the estimated off_impact and def_impact
    ep_result       \* what process_player returned

injVars == <<inj_called, inj_input, inj_result>>

plVars == <<pl_called, pl_input, pl_result>>

mgVars == <<mg_called, mg_input, mg_report, mg_result>>

adjVars == <<adj_called, rest_input, rest_result, rest_fetches, pace_input, pace_result>>

logVars == <<log_exists, log_header, log_rows, log_runs, log_last>>

paVars == <<pa_pc, pa_tracking, pa_matchups, pa_idx, pa_all_projections, pa_failed,
            pa_summary, pa_saved, pipe_status, pipe_pc, pipe_trace>>

smVars == <<sm_pc, sm_schedule, sm_idx, sm_projections>>

lgVars == <<lg_constructed, lg_calls, lg_last_row, lg_last_outcome>>

evVars == <<ev_op, ev_input, ev_result>>

bsVars == <<s1_pc, td_calls, s1_season, s1_last5, s1_baseline, s1_error,
            sm_answers, sm_team_data, sm_adjusted>>

pjVars == <<pj_called, pj_input, pj_result>>

s3Vars == <<s3_pc, s3_roster, s3_idx, s3_outcomes, s3_player_impacts, s3_step, s3_team_impacts,
           s3_events>>

arVars == <<ar_files, ar_today, ar_runs>>

rsVars == <<rs_pc, rs_team_players, rs_idx, rs_roster_stats, rs_events>>

s8Vars == <<s8_called, s8_input, s8_result>>

epVars == <<ep_called, ep_input, ep_estimate, ep_result>>

vars == <<injVars, plVars, mgVars, adjVars, logVars, paVars, smVars, lgVars, evVars, bsVars,
          pjVars, s3Vars, arVars, rsVars, s8Vars, epVars>>

(***************************************************************************)
(* Generic helpers                                                         *)
(***************************************************************************)
Abs(x) == IF x < 0 THEN -x ELSE x

Max2(a, b) == IF a >= b THEN a ELSE b

Min2(a, b) == IF a <= b THEN a ELSE b

\* Python round(): n is an exact value in units of 1/(k*u); the result is in
\* units of 1/u, ties going to the even neighbour.
RoundHalfEven(n, k) ==
    LET q == n \div k
        r == n % k
    IN  IF 2 * r < k THEN q
        ELSE IF 2 * r > k THEN q + 1
        ELSE IF q % 2 = 0 THEN q ELSE q + 1

\* All sequences over S of length at most n.
SeqsUpTo(S, n) == UNION {[1..k -> S] : k \in 0..n}

(***************************************************************************)
(* injury_processor.py                                                     *)
(***************************************************************************)
UpperMap ==
    [a |-> "A", b |-> "B", c |-> "C", d |-> "D", e |-> "E", f |-> "F",
     g |-> "G", h |-> "H", i |-> "I", j |-> "J", k |-> "K", l |-> "L",
     m |-> "M", n |-> "N", o |-> "O", p |-> "P", q |-> "Q", r |-> "R",
     s |-> "S", t |-> "T", u |-> "U", v |-> "V", w |-> "W", x |-> "X",
     y |-> "Y", z |-> "Z"]

UpperChar(ch) == IF ch \in DOMAIN UpperMap THEN UpperMap[ch] ELSE ch

\* str.upper()
Upper(s) == [idx \in 1..Len(s) |-> UpperChar(s[idx])]

\* pat in s
Contains(s, pat) ==
    \E idx \in 1..(Len(s) - Len(pat) + 1) :
        SubSeq(s, idx, idx + Len(pat) - 1) = pat

S_OUT == <<"O", "U", "T">>

S_DOUBTFUL == <<"D", "O", "U", "B", "T", "F", "U", "L">>

S_QUESTIONABLE == <<"Q", "U", "E", "S", "T", "I", "O", "N", "A", "B", "L", "E">>

S_PROBABLE == <<"P", "R", "O", "B", "A", "B", "L", "E">>

S_ACTIVE == <<"A", "C", "T", "I", "V", "E">>

S_DAY_TO_DAY_HYPHEN == <<"D", "A", "Y", "-", "T", "O", "-", "D", "A", "Y">>

S_DAY_TO_DAY_SPACE == <<"D", "A", "Y", " ", "T", "O", " ", "D", "A", "Y">>

STATUS_RULES(status) ==
    CASE status = S_OUT          -> [model_status |-> "unavailable", apply_impact |-> TRUE]
      [] status = S_DOUBTFUL     -> [model_status |-> "unavailable", apply_impact |-> TRUE]
      [] status = S_QUESTIONABLE -> [model_status |-> "available", apply_impact |-> FALSE]
      [] status = S_PROBABLE     -> [model_status |-> "available", apply_impact |-> TRUE]
      [] status = S_ACTIVE       -> [model_status |-> "available", apply_impact |-> TRUE]

StatusKeys == {S_OUT, S_DOUBTFUL, S_QUESTIONABLE, S_PROBABLE, S_ACTIVE}

\* The variations step of process_injury_status, applied to the upper-cased
\* string.
NormaliseStatus(up) ==
    IF Contains(up, S_OUT) THEN S_OUT
    ELSE IF Contains(up, S_DAY_TO_DAY_HYPHEN) \/ Contains(up, S_DAY_TO_DAY_SPACE)
         THEN S_QUESTIONABLE
    ELSE up

\* The same function with the upper-casing left out.
process_injury_status_nocase(espn_status) ==
    LET key  == NormaliseStatus(espn_status)
        rule == IF key \in StatusKeys THEN STATUS_RULES(key) ELSE STATUS_RULES(S_ACTIVE)
    IN  [model_status |-> rule.model_status, apply_impact |-> rule.apply_impact]

process_injury_status(espn_status) ==
    LET espn_status_upper == NormaliseStatus(Upper(espn_status))
        rule == IF espn_status_upper \in StatusKeys
                THEN STATUS_RULES(espn_status_upper)
                ELSE STATUS_RULES(S_ACTIVE)
    IN  [model_status |-> rule.model_status, apply_impact |-> rule.apply_impact]

\* Raw status strings fed to the resolver: the strings the provider is known
\* to send, some near misses, and every string over a small alphabet.
MaxStatusLen == 3

StatusAlphabet == {"O", "U", "T", "o", "u", "t", "x"}

NamedStatuses ==
    { S_OUT, S_DOUBTFUL, S_QUESTIONABLE, S_PROBABLE, S_ACTIVE,
      S_DAY_TO_DAY_HYPHEN, S_DAY_TO_DAY_SPACE,
      <<"O", "u", "t">>,
      <<"D", "o", "u", "b", "t", "f", "u", "l">>,
      <<"Q", "u", "e", "s", "t", "i", "o", "n", "a", "b", "l", "e">>,
      <<"P", "r", "o", "b", "a", "b", "l", "e">>,
      <<"A", "c", "t", "i", "v", "e">>,
      <<"D", "a", "y", "-", "T", "o", "-", "D", "a", "y">>,
      <<"d", "a", "y", " ", "t", "o", " ", "d", "a", "y">>,
      <<"O", "u", "t", " ", "F", "o", "r", " ", "S", "e", "a", "s", "o", "n">>,
      <<"O", "u", "t", " ", "D", "a", "y", "-", "T", "o", "-", "D", "a", "y">>,
      <<"R", "o", "u", "t", "i", "n", "e">>,
      <<"D", "O", "U", "B", "T", "F", "U", "L", " ">>,
      <<"Q", "U", "E", "S", "T", "I", "O", "N", "A", "B", "L", "E", "?">>,
      <<"S", "u", "s", "p", "e", "n", "s", "i", "o", "n">>,
      <<"G", "T", "D">> }

StatusInputs == NamedStatuses \cup SeqsUpTo(StatusAlphabet, MaxStatusLen)

NoStatusResult == [model_status |-> "none", apply_impact |-> FALSE]

ProcessInjuryStatus ==
    /\ ~inj_called
    /\ \E raw \in StatusInputs :
          /\ inj_input' = raw
          /\ inj_result' = process_injury_status(raw)
    /\ inj_called' = TRUE
    /\ UNCHANGED <<plVars, mgVars, adjVars, logVars, paVars, smVars, lgVars, evVars, bsVars, pjVars, s3Vars, arVars, rsVars, s8Vars, epVars>>

(***************************************************************************)
(* player_stats_processor.py                                               *)
(*   minutes and games are whole numbers; usage, net rating, on-court      *)
(*   ratings and minutes per game are in tenths.                           *)
(***************************************************************************)
LEAGUE_AVG_OFF_RATING == 1150

LEAGUE_AVG_DEF_RATING == 1150

MIN_MINUTES_THRESHOLD == 300

MAX_USAGE_VOLATILITY == 50

MIN_ON_OFF_STRENGTH == 15

TIER_1_CAP == 60

TIER_2_CAP == 30

PLAYER_WEIGHT == 7

LEAGUE_AVG_WEIGHT == 3

filter_a_minimum_minutes(minutes_played) == minutes_played >= MIN_MINUTES_THRESHOLD

\* Returns <<eligible, usage_diff>>.
filter_b_usage_stability(usage_rate_last_10, usage_rate_season) ==
    LET usage_diff == Abs(usage_rate_last_10 - usage_rate_season)
    IN  <<usage_diff <= MAX_USAGE_VOLATILITY, usage_diff>>

\* A variant that lets a net rating of exactly 1.5 pass.
filter_c_onoff_strength_inclusive(net_rating) == Abs(net_rating) >= MIN_ON_OFF_STRENGTH

filter_c_onoff_strength(net_rating) == Abs(net_rating) > MIN_ON_OFF_STRENGTH

\* mpg >= t, with mpg = minutes_played / games_played if games_played > 0
\* else 0 (t in whole minutes).
MpgAtLeast(minutes_played, games_played, t) ==
    IF games_played > 0 THEN minutes_played >= t * games_played ELSE 0 >= t

\* The tier rule without its sample-size requirement.
filter_d_tier_classification_nosample(usage_rate, minutes_played, net_rating, games_played) ==
    IF usage_rate >= 280 /\ MpgAtLeast(minutes_played, games_played, 30)
          /\ Abs(net_rating) >= 20 THEN "Tier 1"
    ELSE IF usage_rate >= 220 /\ MpgAtLeast(minutes_played, games_played, 26)
          /\ Abs(net_rating) >= 10 THEN "Tier 2"
    ELSE IF MpgAtLeast(minutes_played, games_played, 15) THEN "Tier 3"
    ELSE "Tier 4"

filter_d_tier_classification(usage_rate, minutes_played, net_rating, games_played) ==
    IF minutes_played < 300 THEN "Tier 4"
    ELSE IF usage_rate >= 280 /\ MpgAtLeast(minutes_played, games_played, 30)
          /\ Abs(net_rating) >= 20 THEN "Tier 1"
    ELSE IF usage_rate >= 220 /\ MpgAtLeast(minutes_played, games_played, 26)
          /\ Abs(net_rating) >= 10 THEN "Tier 2"
    ELSE IF MpgAtLeast(minutes_played, games_played, 15) THEN "Tier 3"
    ELSE "Tier 4"

\* Weights are in tenths.
vegas_module_1_lineup_dependency(starter_overlap_pct) ==
    IF starter_overlap_pct >= 60 THEN 10
    ELSE IF starter_overlap_pct >= 30 THEN 8
    ELSE 5

vegas_module_2_defensive_role(position, is_rim_protector, is_poa_defender) ==
    IF is_rim_protector \/ position \in {"C", "C-F"} THEN 14
    ELSE IF is_poa_defender THEN 12
    ELSE 10

vegas_module_3_sample_dampening(games_played) ==
    IF games_played < 15 THEN 6 ELSE 10

\* max(min(x, cap), -cap)
Clamp(x, cap) == Max2(Min2(x, cap), -cap)

\* Returns <<off_impact, def_impact>> in hundredths.  The variant below
\* leaves the tier cap out.
calculate_impact_nocap(off_rating, def_rating, tier) ==
    LET regressed_off == PLAYER_WEIGHT * off_rating + LEAGUE_AVG_WEIGHT * LEAGUE_AVG_OFF_RATING
        regressed_def == PLAYER_WEIGHT * def_rating + LEAGUE_AVG_WEIGHT * LEAGUE_AVG_DEF_RATING
        off_impact == regressed_off - 10 * LEAGUE_AVG_OFF_RATING
        def_impact == regressed_def - 10 * LEAGUE_AVG_DEF_RATING
    IN  IF tier \in {"Tier 1", "Tier 2"} THEN <<off_impact, def_impact>> ELSE <<0, 0>>

\* The variant below swaps the two regression weights.
calculate_impact_swapped(off_rating, def_rating, tier) ==
    LET regressed_off == LEAGUE_AVG_WEIGHT * off_rating + PLAYER_WEIGHT * LEAGUE_AVG_OFF_RATING
        regressed_def == LEAGUE_AVG_WEIGHT * def_rating + PLAYER_WEIGHT * LEAGUE_AVG_DEF_RATING
        off_impact == regressed_off - 10 * LEAGUE_AVG_OFF_RATING
        def_impact == regressed_def - 10 * LEAGUE_AVG_DEF_RATING
    IN  IF tier = "Tier 1"
        THEN <<Clamp(off_impact, 10 * TIER_1_CAP), Clamp(def_impact, 10 * TIER_1_CAP)>>
        ELSE IF tier = "Tier 2"
        THEN <<Clamp(off_impact, 10 * TIER_2_CAP), Clamp(def_impact, 10 * TIER_2_CAP)>>
        ELSE <<0, 0>>

calculate_impact(off_rating, def_rating, tier) ==
    LET regressed_off == PLAYER_WEIGHT * off_rating + LEAGUE_AVG_WEIGHT * LEAGUE_AVG_OFF_RATING
        regressed_def == PLAYER_WEIGHT * def_rating + LEAGUE_AVG_WEIGHT * LEAGUE_AVG_DEF_RATING
        off_impact == regressed_off - 10 * LEAGUE_AVG_OFF_RATING
        def_impact == regressed_def - 10 * LEAGUE_AVG_DEF_RATING
    IN  IF tier = "Tier 1"
        THEN <<Clamp(off_impact, 10 * TIER_1_CAP), Clamp(def_impact, 10 * TIER_1_CAP)>>
        ELSE IF tier = "Tier 2"
        THEN <<Clamp(off_impact, 10 * TIER_2_CAP), Clamp(def_impact, 10 * TIER_2_CAP)>>
        ELSE <<0, 0>>

NoVegas == [lineup_weight |-> 0, def_role_weight |-> 0, sample_weight |-> 0]

\* ps is the player_stats dict, kw the keyword arguments.  The result also
\* carries calc, the pair calculate_impact returned (<<0, 0>> when it was not
\* called), which the source holds in local variables.
process_player(ps, kw) ==
    LET pass_filter_a == filter_a_minimum_minutes(ps.minutes_played_season)
        fb            == filter_b_usage_stability(ps.usage_rate_last_10, ps.usage_rate)
        pass_filter_b == fb[1]
        pass_filter_c == filter_c_onoff_strength(ps.net_rating)
        tier          == filter_d_tier_classification(ps.usage_rate, ps.minutes_played_season,
                                                      ps.net_rating, ps.games_played)
        pass_filter_d == tier \in {"Tier 1", "Tier 2"}
        eligible      == pass_filter_a /\ pass_filter_b /\ pass_filter_c /\ pass_filter_d
        calc          == calculate_impact(ps.off_rating_oncourt, ps.def_rating_oncourt, tier)
        overlap       == IF ~kw.overlap_given
                         THEN (IF ps.minutes_per_game >= 250 THEN 100 ELSE 50)
                         ELSE kw.starter_overlap_pct
        lineup_weight == vegas_module_1_lineup_dependency(overlap)
        def_role_weight == IF kw.position # "None"
                           THEN vegas_module_2_defensive_role(kw.position, kw.is_rim_protector,
                                                              kw.is_poa_defender)
                           ELSE 10
        sample_weight == vegas_module_3_sample_dampening(ps.games_played)
        \* exact products: off in 1/10000, def in 1/100000
        off_weighted  == calc[1] * lineup_weight * sample_weight
        def_weighted  == calc[2] * lineup_weight * def_role_weight * sample_weight
    IN  [ tier      |-> tier,
          eligible  |-> eligible,
          off_impact |-> IF eligible THEN RoundHalfEven(off_weighted, 1000) ELSE 0,
          def_impact |-> IF eligible THEN RoundHalfEven(def_weighted, 10000) ELSE 0,
          calc      |-> IF eligible THEN calc ELSE <<0, 0>>,
          usage_volatility_10 |-> fb[2],
          vegas_adjustments |->
              IF eligible
              THEN [lineup_weight |-> lineup_weight, def_role_weight |-> def_role_weight,
                    sample_weight |-> sample_weight]
              ELSE NoVegas,
          filter_results |-> [min_minutes |-> pass_filter_a, usage_stable |-> pass_filter_b,
                              strong_onoff |-> pass_filter_c, tier_eligible |-> pass_filter_d] ]

\* Inputs of process_player.
MinutesValues == {299, 300, 1200, 1560, 1800, 1920}

GamesValues == {0, 9, 60}

UsageValues == {219, 220, 280, 300}

UsageLast10Offsets == {0, 50, -51}

NetRatingValues == {-30, 15, 16, 20, 30}

OffRatingValues == {1000, 1140, 1193}

DefRatingValues == {1050, 1300}

\* <<starter_overlap_pct given, its value, minutes_per_game field>>
OverlapValues ==
    { <<TRUE, 100, 320>>, <<TRUE, 40, 320>>, <<TRUE, 10, 200>>,
      <<FALSE, 0, 320>>, <<FALSE, 0, 200>> }

\* <<position, is_rim_protector, is_poa_defender>>
RoleValues ==
    { <<"None", FALSE, FALSE>>, <<"C", TRUE, FALSE>>, <<"G", FALSE, TRUE>>,
      <<"F", FALSE, FALSE>>, <<"C-F", FALSE, FALSE>> }

NoPlayerInput ==
    [ ps |-> [minutes_played_season |-> 0, games_played |-> 0, minutes_per_game |-> 0,
              usage_rate |-> 0, usage_rate_last_10 |-> 0, net_rating |-> 0,
              off_rating_oncourt |-> 0, def_rating_oncourt |-> 0],
      kw |-> [position |-> "None", overlap_given |-> FALSE, starter_overlap_pct |-> 0,
              is_rim_protector |-> FALSE, is_poa_defender |-> FALSE] ]

NoPlayerResult ==
    [ tier |-> "none", eligible |-> FALSE, off_impact |-> 0, def_impact |-> 0,
      calc |-> <<0, 0>>, usage_volatility_10 |-> 0, vegas_adjustments |-> NoVegas,
      filter_results |-> [min_minutes |-> FALSE, usage_stable |-> FALSE,
                          strong_onoff |-> FALSE, tier_eligible |-> FALSE] ]

PlayerInputs ==
    { [ ps |-> [minutes_played_season |-> minutes, games_played |-> games,
                minutes_per_game |-> ov[3], usage_rate |-> usage,
                usage_rate_last_10 |-> usage + off10, net_rating |-> net,
                off_rating_oncourt |-> offr, def_rating_oncourt |-> defr],
        kw |-> [position |-> role[1], overlap_given |-> ov[1],
                starter_overlap_pct |-> ov[2],
                is_rim_protector |-> role[2], is_poa_defender |-> role[3]] ] :
      minutes \in MinutesValues, games \in GamesValues, usage \in UsageValues,
      off10 \in UsageLast10Offsets, net \in NetRatingValues,
      offr \in OffRatingValues, defr \in DefRatingValues,
      ov \in OverlapValues, role \in RoleValues }

ProcessPlayer ==
    /\ ~pl_called
    /\ \E inp \in PlayerInputs :
          /\ pl_input' = inp
          /\ pl_result' = process_player(inp.ps, inp.kw)
    /\ pl_called' = TRUE
    /\ UNCHANGED <<injVars, mgVars, adjVars, logVars, paVars, smVars, lgVars, evVars, bsVars, pjVars, s3Vars, arVars, rsVars, s8Vars, epVars>>

(***************************************************************************)
(* master_projection_engine.py: steps 2 and 5 (injury report and merge)    *)
(*   player impacts are in tenths, as process_player returns them; the     *)
(*   adjustments step 5 returns are in hundredths.                         *)
(***************************************************************************)
\* InjuryProcessor.generate_injury_report: one report entry per fetched
\* injury, in order.
generate_injury_report(injuries) ==
    [idx \in 1..Len(injuries) |->
        LET status_info == process_injury_status(injuries[idx].espn_status)
        IN  [player_name  |-> injuries[idx].player_name,
             espn_status  |-> injuries[idx].espn_status,
             model_status |-> status_info.model_status,
             apply_impact |-> status_info.apply_impact]]

step_2_get_injury_report(injuries, injury_adjustment) ==
    IF ~injury_adjustment THEN <<>> ELSE generate_injury_report(injuries)

\* impact_lookup = {p['player_name']: p for p in player_impacts}: a later
\* entry of the list replaces an earlier one of the same name.
InImpactLookup(player_impacts, player_name) ==
    \E idx \in 1..Len(player_impacts) : player_impacts[idx].player_name = player_name

impact_lookup(player_impacts, player_name) ==
    LET last == CHOOSE idx \in 1..Len(player_impacts) :
                    /\ player_impacts[idx].player_name = player_name
                    /\ \A later \in (idx + 1)..Len(player_impacts) :
                           player_impacts[later].player_name # player_name
    IN  player_impacts[last]

\* One pass of the loop over the report; acc holds the running sums (tenths)
\* and the breakdown.  The variant below applies the impact unflipped.
RECURSIVE MergeLoopUnflipped(_, _, _, _)
MergeLoopUnflipped(report, player_impacts, idx, acc) ==
    IF idx > Len(report) THEN acc
    ELSE
        LET injury == report[idx]
            found  == InImpactLookup(player_impacts, injury.player_name)
            player_data == impact_lookup(player_impacts, injury.player_name)
        IN  IF found /\ player_data.eligible /\ injury.model_status = "unavailable"
            THEN MergeLoopUnflipped(report, player_impacts, idx + 1,
                    [off_adjustment |-> acc.off_adjustment + player_data.off_impact,
                     def_adjustment |-> acc.def_adjustment + player_data.def_impact,
                     impact_breakdown |-> Append(acc.impact_breakdown,
                        [player_name |-> injury.player_name,
                         off_impact |-> player_data.off_impact,
                         def_impact |-> player_data.def_impact,
                         off_adjustment |-> player_data.off_impact,
                         def_adjustment |-> player_data.def_impact])])
            ELSE MergeLoopUnflipped(report, player_impacts, idx + 1, acc)

RECURSIVE MergeLoop(_, _, _, _)
MergeLoop(report, player_impacts, idx, acc) ==
    IF idx > Len(report) THEN acc
    ELSE
        LET injury == report[idx]
            found  == InImpactLookup(player_impacts, injury.player_name)
            player_data == impact_lookup(player_impacts, injury.player_name)
        IN  IF found /\ player_data.eligible /\ injury.model_status = "unavailable"
            THEN MergeLoop(report, player_impacts, idx + 1,
                    [off_adjustment |-> acc.off_adjustment + (-player_data.off_impact),
                     def_adjustment |-> acc.def_adjustment + (-player_data.def_impact),
                     impact_breakdown |-> Append(acc.impact_breakdown,
                        [player_name |-> injury.player_name,
                         off_impact |-> player_data.off_impact,
                         def_impact |-> player_data.def_impact,
                         off_adjustment |-> -player_data.off_impact,
                         def_adjustment |-> -player_data.def_impact])])
            ELSE MergeLoop(report, player_impacts, idx + 1, acc)

NoMergeResult == [off_adjustment |-> 0, def_adjustment |-> 0, impact_breakdown |-> <<>>]

\* The sums are in tenths, that is sum * 100 thousandths; round(x, 2) gives
\* hundredths.
step_5_merge_injuries_and_impacts(report, player_impacts, injury_adjustment) ==
    IF ~injury_adjustment THEN NoMergeResult
    ELSE
        LET acc == MergeLoop(report, player_impacts, 1, NoMergeResult)
        IN  [off_adjustment |-> RoundHalfEven(acc.off_adjustment * 100, 10),
             def_adjustment |-> RoundHalfEven(acc.def_adjustment * 100, 10),
             impact_breakdown |-> acc.impact_breakdown]

\* Inputs: the injuries the provider lists for a team and the impact objects
\* step 3 produced for its roster.  p3 is injured but never on the roster.
MaxInjuries == 2

RosterPlayers == <<"p1", "p2">>

InjuredPlayers == {"p1", "p2", "p3"}

InjuryStatuses == {S_OUT, S_DOUBTFUL, S_QUESTIONABLE, S_PROBABLE}

InjuryLists ==
    SeqsUpTo([player_name : InjuredPlayers, espn_status : InjuryStatuses], MaxInjuries)

\* What step 3 may hold for one roster player: nothing (the player was
\* skipped), or an impact object.
ImpactChoices ==
    { [present |-> FALSE, eligible |-> FALSE, off_impact |-> 0, def_impact |-> 0],
      [present |-> TRUE, eligible |-> TRUE, off_impact |-> 36, def_impact |-> -84],
      [present |-> TRUE, eligible |-> TRUE, off_impact |-> -60, def_impact |-> 50],
      [present |-> TRUE, eligible |-> FALSE, off_impact |-> 0, def_impact |-> 0],
      [present |-> TRUE, eligible |-> FALSE, off_impact |-> 21, def_impact |-> 21] }

RECURSIVE ImpactList(_, _)
ImpactList(choice, idx) ==
    IF idx > Len(RosterPlayers) THEN <<>>
    ELSE
        LET rest == ImpactList(choice, idx + 1)
            c    == choice[idx]
        IN  IF c.present
            THEN <<[player_name |-> RosterPlayers[idx], eligible |-> c.eligible,
                    off_impact |-> c.off_impact, def_impact |-> c.def_impact]>> \o rest
            ELSE rest

NoMergeInput == [injuries |-> <<>>, player_impacts |-> <<>>, injury_adjustment |-> FALSE]

\* Steps 2 and 5 of run_full_pipeline for one team.
MergeInjuriesAndImpacts ==
    /\ ~mg_called
    /\ \E injuries \in InjuryLists,
          choice \in [1..Len(RosterPlayers) -> ImpactChoices],
          injury_adjustment \in BOOLEAN :
          LET player_impacts == ImpactList(choice, 1)
              report == step_2_get_injury_report(injuries, injury_adjustment)
          IN  /\ mg_input' = [injuries |-> injuries, player_impacts |-> player_impacts,
                              injury_adjustment |-> injury_adjustment]
              /\ mg_report' = report
              /\ mg_result' = step_5_merge_injuries_and_impacts(
                                  report, player_impacts, injury_adjustment)
    /\ mg_called' = TRUE
    /\ UNCHANGED <<injVars, plVars, adjVars, logVars, paVars, smVars, lgVars, evVars, bsVars, pjVars, s3Vars, arVars, rsVars, s8Vars, epVars>>

(***************************************************************************)
(* rest_adjustment_module.py                                               *)
(*   spreads and rest adjustments are in hundredths of a point; datetimes  *)
(*   are in hours since midnight of day 0.  None is the empty sequence, a  *)
(*   value v that may be None is <<v>>.                                    *)
(***************************************************************************)
HoursPerDay == 24

\* timedelta.days: whole days, rounded towards minus infinity.
TimedeltaDays(later_hours, earlier_hours) == (later_hours - earlier_hours) \div HoursPerDay

\* The provider's answer to the team game log request is an exception or
\* the rows of the log, most recent first; a row carries the day of its
\* GAME_DATE and its MATCHUP, split into words.
fetch_last_game_nba_api(answer) ==
    IF answer.kind = "raises" THEN <<>>
    ELSE IF Len(answer.rows) = 0 THEN <<>>
    ELSE LET last_game == answer.rows[1]
         IN  <<[last_game_day |-> last_game.GAME_DATE,
                home_or_away |-> IF \E i \in 1..Len(last_game.MATCHUP) :
                                        last_game.MATCHUP[i] = "vs."
                                 THEN "home" ELSE "away"]>>

\* A variant that takes a team without a last game for one that played
\* yesterday.
get_rest_days_default_one(last_game_data, current_game_date) ==
    IF last_game_data = <<>> THEN <<1, "unknown">>
    ELSE
        LET rest_days == TimedeltaDays(current_game_date,
                                       last_game_data[1].last_game_day * HoursPerDay)
        IN  <<IF rest_days > 30 THEN 5 ELSE rest_days, last_game_data[1].home_or_away>>

\* get_rest_days, given what fetch_last_game_nba_api returned: None, or the
\* date of the last game (parsed from 'DEC 07, 2025', hence midnight) and its
\* location.
get_rest_days(last_game_data, current_game_date) ==
    IF last_game_data = <<>> THEN <<2, "unknown">>
    ELSE
        LET rest_days == TimedeltaDays(current_game_date,
                                       last_game_data[1].last_game_day * HoursPerDay)
        IN  <<IF rest_days > 30 THEN 5 ELSE rest_days, last_game_data[1].home_or_away>>

\* A variant without the home/away term of long rests.
calculate_rest_adjustment_flat(rest_days, previous_location, current_location) ==
    IF rest_days = 0 THEN -150
    ELSE IF rest_days = 1 THEN 0
    ELSE IF rest_days = 2 THEN 50
    ELSE IF rest_days >= 3 THEN 100
    ELSE 0

calculate_rest_adjustment(rest_days, previous_location, current_location) ==
    LET rest_adj == IF rest_days = 0 THEN -150
                    ELSE IF rest_days = 1 THEN 0
                    ELSE IF rest_days = 2 THEN 50
                    ELSE IF rest_days >= 3 THEN 100
                    ELSE 0
    IN  IF rest_days >= 4
        THEN IF previous_location = "away" /\ current_location = "home" THEN rest_adj + 25
             ELSE IF previous_location = "home" /\ current_location = "away" THEN rest_adj - 25
             ELSE rest_adj
        ELSE rest_adj

\* A variant whose disabled branch rounds the spread like the enabled one.
apply_rest_adjustment_rounded(baseline_spread, last_home, last_away, game_date, rest_adjustment_enabled) ==
    [rest_adjustment_enabled |-> FALSE,
     rest_days_home |-> <<>>,
     rest_days_away |-> <<>>,
     rest_adj_home |-> 0,
     rest_adj_away |-> 0,
     rest_module_spread |-> 10 * RoundHalfEven(baseline_spread, 10),
     baseline_spread |-> baseline_spread,
     fetches |-> 0]

\* last_home and last_away are what the provider would answer for the two
\* teams; fetches counts the requests the call makes.
apply_rest_adjustment(baseline_spread, last_home, last_away, game_date, rest_adjustment_enabled) ==
    IF ~rest_adjustment_enabled
    THEN [rest_adjustment_enabled |-> FALSE,
          rest_days_home |-> <<>>,
          rest_days_away |-> <<>>,
          rest_adj_home |-> 0,
          rest_adj_away |-> 0,
          rest_module_spread |-> baseline_spread,
          baseline_spread |-> baseline_spread,
          fetches |-> 0]
    ELSE
        LET home == get_rest_days(last_home, game_date)
            away == get_rest_days(last_away, game_date)
            rest_adj_home == calculate_rest_adjustment(home[1], home[2], "home")
            rest_adj_away == calculate_rest_adjustment(away[1], away[2], "away")
            adjusted_spread == baseline_spread + (rest_adj_away - rest_adj_home)
        IN  [rest_adjustment_enabled |-> TRUE,
             rest_days_home |-> <<home[1]>>,
             rest_days_away |-> <<away[1]>>,
             rest_adj_home |-> rest_adj_home,
             rest_adj_away |-> rest_adj_away,
             rest_module_spread |-> 10 * RoundHalfEven(adjusted_spread, 10),
             baseline_spread |-> baseline_spread,
             fetches |-> 2]

\* Inputs.  The game is on day Today; a team's last game was DaysAgo days
\* before it (0: a game already in the log for today).
Today == 40

GameHours == {0, 19}

DaysAgo == {0, 1, 2, 3, 4, 31}

Matchups == {<<"BOS", "vs.", "MIL">>, <<"BOS", "@", "MIL">>}

GameLogAnswers ==
    {[kind |-> "raises", rows |-> <<>>], [kind |-> "rows", rows |-> <<>>]} \cup
    { [kind |-> "rows", rows |-> <<[GAME_DATE |-> Today - ago, MATCHUP |-> m]>>] :
        ago \in DaysAgo, m \in Matchups }

BaselineSpreads == {-755, 0, 333}

NoRestInput ==
    [baseline_spread |-> 0, home_answer |-> [kind |-> "raises", rows |-> <<>>],
     away_answer |-> [kind |-> "raises", rows |-> <<>>],
     last_home |-> <<>>, last_away |-> <<>>,
     game_date |-> 0, rest_adjustment_enabled |-> FALSE]

NoRestResult ==
    [rest_adjustment_enabled |-> FALSE, rest_days_home |-> <<>>, rest_days_away |-> <<>>,
     rest_adj_home |-> 0, rest_adj_away |-> 0, rest_module_spread |-> 0,
     baseline_spread |-> 0]

ApplyRestAdjustment ==
    /\ adj_called = "none"
    /\ \E baseline_spread \in BaselineSpreads,
          home_answer \in GameLogAnswers,
          away_answer \in GameLogAnswers,
          hour \in GameHours,
          rest_adjustment_enabled \in BOOLEAN :
          LET game_date == Today * HoursPerDay + hour
              last_home == fetch_last_game_nba_api(home_answer)
              last_away == fetch_last_game_nba_api(away_answer)
              r == apply_rest_adjustment(baseline_spread, last_home, last_away,
                                         game_date, rest_adjustment_enabled)
          IN  /\ rest_input' = [baseline_spread |-> baseline_spread,
                                home_answer |-> home_answer,
                                away_answer |-> away_answer,
                                last_home |-> last_home, last_away |-> last_away,
                                game_date |-> game_date,
                                rest_adjustment_enabled |-> rest_adjustment_enabled]
              /\ rest_result' = [f \in DOMAIN r \ {"fetches"} |-> r[f]]
              /\ rest_fetches' = rest_fetches + r.fetches
    /\ adj_called' = "rest"
    /\ UNCHANGED <<pace_input, pace_result>>
    /\ UNCHANGED <<injVars, plVars, mgVars, logVars, paVars, smVars, lgVars, evVars, bsVars, pjVars, s3Vars, arVars, rsVars, s8Vars, epVars>>

(***************************************************************************)
(* pace_adjustment_module.py                                               *)
(*   paces, totals and adjustments are in hundredths.                      *)
(***************************************************************************)
league_avg_pace == 9850

calculate_pace_delta(team_a_pace, team_b_pace) ==
    (team_a_pace + team_b_pace) - (2 * league_avg_pace)

\* A variant whose steps include their lower boundaries.
calculate_pace_adjustment_inclusive(pace_delta) ==
    IF pace_delta >= 400 THEN 400
    ELSE IF pace_delta >= 200 THEN 200
    ELSE IF pace_delta <= -400 THEN -400
    ELSE IF pace_delta <= -200 THEN -200
    ELSE 0

calculate_pace_adjustment(pace_delta) ==
    IF pace_delta > 400 THEN 400
    ELSE IF pace_delta > 200 THEN 200
    ELSE IF pace_delta < -400 THEN -400
    ELSE IF pace_delta < -200 THEN -200
    ELSE 0

apply_pace_adjustment(baseline_total, home_pace, away_pace, pace_adjustment_enabled) ==
    IF ~pace_adjustment_enabled
    THEN [pace_adjustment_enabled |-> FALSE,
          pace_delta |-> 0,
          pace_total_adj |-> 0,
          baseline_total |-> baseline_total,
          pace_module_total |-> baseline_total]
    ELSE
        LET pace_delta == calculate_pace_delta(home_pace, away_pace)
            pace_total_adj == calculate_pace_adjustment(pace_delta)
            pace_module_total == baseline_total + pace_total_adj
        IN  [pace_adjustment_enabled |-> TRUE,
             pace_delta |-> pace_delta,
             pace_total_adj |-> pace_total_adj,
             baseline_total |-> baseline_total,
             pace_module_total |-> 10 * RoundHalfEven(pace_module_total, 10)]

PaceValues == {9500, 9650, 9750, 9849, 9850, 9950, 10050, 10051, 10400, 10500}

BaselineTotals == {21050, 22333}

NoPaceInput ==
    [baseline_total |-> 0, home_pace |-> 0, away_pace |-> 0,
     pace_adjustment_enabled |-> FALSE]

NoPaceResult ==
    [pace_adjustment_enabled |-> FALSE, pace_delta |-> 0, pace_total_adj |-> 0,
     baseline_total |-> 0, pace_module_total |-> 0]

ApplyPaceAdjustment ==
    /\ adj_called = "none"
    /\ \E baseline_total \in BaselineTotals,
          home_pace \in PaceValues,
          away_pace \in PaceValues,
          pace_adjustment_enabled \in BOOLEAN :
          /\ pace_input' = [baseline_total |-> baseline_total, home_pace |-> home_pace,
                            away_pace |-> away_pace,
                            pace_adjustment_enabled |-> pace_adjustment_enabled]
          /\ pace_result' = apply_pace_adjustment(baseline_total, home_pace, away_pace,
                                                  pace_adjustment_enabled)
    /\ adj_called' = "pace"
    /\ UNCHANGED <<rest_input, rest_result, rest_fetches>>
    /\ UNCHANGED <<injVars, plVars, mgVars, logVars, paVars, smVars, lgVars, evVars, bsVars, pjVars, s3Vars, arVars, rsVars, s8Vars, epVars>>

(***************************************************************************)
(* model_performance/performance_logger.py                                 *)
(*   strings that the code inspects (team names, game ids) are sequences   *)
(*   of characters; lines and edges are in tenths of a point.  Of the      *)
(*   notes evaluate_game writes only the kind is kept: "Edge too small"    *)
(*   or "Actual" for the text that reports the result.                     *)
(***************************************************************************)
VALID_PICK_TYPES ==
    {"spread_dog_value", "spread_fav_small", "spread_big_edge", "flipped_favorite",
     "total_over_value", "total_over_big_edge", "total_under_value", "total_under_big_edge"}

VALID_VARIANCE_FLAGS == {"normal", "high_variance"}

VALID_INJURY_FLAGS == {"none", "minor", "major"}

_calculate_confidence_band(edge_points) ==
    LET edge_abs == Abs(edge_points)
    IN  IF edge_abs < 20 THEN "low"
        ELSE IF edge_abs < 40 THEN "medium"
        ELSE IF edge_abs < 60 THEN "high"
        ELSE "elite"

IsLowerChar(ch) == ch \in DOMAIN UpperMap

IsUpperChar(ch) == \E k \in DOMAIN UpperMap : UpperMap[k] = ch

\* str.isupper(): at least one cased character and no lower-case one.
IsUpper(s) ==
    /\ \E idx \in 1..Len(s) : IsUpperChar(s[idx])
    /\ \A idx \in 1..Len(s) : ~IsLowerChar(s[idx])

_validate_game_id(game_id) ==
    LET ats == {idx \in 1..Len(game_id) : game_id[idx] = "@"}
    IN  IF ats = {} THEN FALSE
        ELSE IF Cardinality(ats) # 1 THEN FALSE
        ELSE
            LET at == CHOOSE idx \in ats : TRUE
                parts == <<SubSeq(game_id, 1, at - 1), SubSeq(game_id, at + 1, Len(game_id))>>
            IN  \A k \in 1..2 : IsUpper(parts[k]) /\ Len(parts[k]) > 0

\* TRUE when _validate_row raises ValueError.  The rows evaluate_game builds
\* carry every required field, numeric lines and a boolean result.
_validate_row_raises(row_dict) ==
    \/ row_dict.pick_type \notin VALID_PICK_TYPES
    \/ ~_validate_game_id(row_dict.game_id)
    \/ row_dict.variance_flag \notin VALID_VARIANCE_FLAGS
    \/ row_dict.injury_flag \notin VALID_INJURY_FLAGS

\* The line log_performance appends to the file.
csv_row(row_dict) ==
    [date |-> row_dict.date,
     game_id |-> row_dict.game_id,
     pick_type |-> row_dict.pick_type,
     edge_points |-> row_dict.edge_points,
     model_line |-> row_dict.model_line,
     market_line |-> row_dict.market_line,
     result_correct |-> IF row_dict.result_correct THEN "TRUE" ELSE "FALSE",
     confidence_band |-> _calculate_confidence_band(row_dict.edge_points),
     variance_flag |-> row_dict.variance_flag,
     injury_flag |-> row_dict.injury_flag,
     notes |-> row_dict.notes]

\* The header row of the file.
CSV_HEADER ==
    <<"date", "game_id", "pick_type", "edge_points", "model_line", "market_line",
      "result_correct", "confidence_band", "variance_flag", "injury_flag", "notes">>

\* A variant that writes the header whenever a logger is constructed.
_ensure_csv_exists_always(f) == [f EXCEPT !.exists = TRUE, !.header = <<CSV_HEADER>>, !.rows = <<>>]

\* _ensure_csv_exists on a record f with the fields exists, header and rows
\* of the file: open(csv_path, 'w') and one header row, only when the file
\* is not there.
_ensure_csv_exists(f) ==
    IF ~f.exists
    THEN [f EXCEPT !.exists = TRUE, !.header = <<CSV_HEADER>>, !.rows = <<>>]
    ELSE f

\* A row_dict as a caller may pass it: present is the set of its keys; a
\* value that should be a number is [kind, num] with kind float, str_numeric
\* (a string such as '4.5'), str (any other string) or none; result_correct
\* is [kind, val] with kind bool, int or str.
REQUIRED_FIELDS ==
    <<"date", "game_id", "pick_type", "edge_points", "model_line", "market_line",
      "result_correct", "variance_flag", "injury_flag">>

\* float(x) raises ValueError or TypeError
FloatRaises(x) == x.kind \in {"str", "none"}

\* abs(x) and round(x, 2) raise TypeError
ArithmeticRaises(x) == x.kind # "float"

\* _validate_row: "ok", or the name of the first check that raises ValueError.
_validate_row(row_dict) ==
    IF \E k \in 1..Len(REQUIRED_FIELDS) : REQUIRED_FIELDS[k] \notin row_dict.present
    THEN "missing_field"
    ELSE IF row_dict.pick_type \notin VALID_PICK_TYPES THEN "pick_type"
    ELSE IF ~_validate_game_id(row_dict.game_id) THEN "game_id"
    ELSE IF row_dict.variance_flag \notin VALID_VARIANCE_FLAGS THEN "variance_flag"
    ELSE IF row_dict.injury_flag \notin VALID_INJURY_FLAGS THEN "injury_flag"
    ELSE IF \/ FloatRaises(row_dict.edge_points)
            \/ FloatRaises(row_dict.model_line)
            \/ FloatRaises(row_dict.market_line) THEN "numeric"
    ELSE IF row_dict.result_correct.kind # "bool" THEN "result_correct"
    ELSE "ok"

\* The values of a row_dict that passed every check.
PlainRow(row_dict) ==
    [date |-> row_dict.date,
     game_id |-> row_dict.game_id,
     pick_type |-> row_dict.pick_type,
     edge_points |-> row_dict.edge_points.num,
     model_line |-> row_dict.model_line.num,
     market_line |-> row_dict.market_line.num,
     result_correct |-> row_dict.result_correct.val,
     variance_flag |-> row_dict.variance_flag,
     injury_flag |-> row_dict.injury_flag,
     notes |-> IF "notes" \in row_dict.present THEN row_dict.notes ELSE ""]

\* A variant that appends the row before it validates it.
log_performance_write_first(f, row_dict) ==
    [file |-> [f EXCEPT !.rows = Append(@, PlainRow(row_dict))],
     raised |-> _validate_row(row_dict) # "ok"]

\* log_performance on the file f: validation, then the confidence band and
\* the csv row (arithmetic on the three numbers), then the append.
log_performance(f, row_dict) ==
    IF _validate_row(row_dict) # "ok" THEN [file |-> f, raised |-> TRUE]
    ELSE IF ArithmeticRaises(row_dict.edge_points) THEN [file |-> f, raised |-> TRUE]
    ELSE IF \/ ArithmeticRaises(row_dict.model_line)
            \/ ArithmeticRaises(row_dict.market_line) THEN [file |-> f, raised |-> TRUE]
    ELSE [file |-> [f EXCEPT !.rows = Append(@, csv_row(PlainRow(row_dict)))],
          raised |-> FALSE]

\* Inputs: the example of the module's docstring and rows that differ from
\* it in one place.
MaxLogCalls == 2

Float(n) == [kind |-> "float", num |-> n]

G_BOS_MIL == <<"B", "O", "S", "@", "M", "I", "L">>

ExampleRow ==
    [present |-> {REQUIRED_FIELDS[k] : k \in 1..Len(REQUIRED_FIELDS)} \cup {"notes"},
     date |-> "2025-12-11",
     game_id |-> G_BOS_MIL,
     pick_type |-> "spread_big_edge",
     edge_points |-> Float(45),
     model_line |-> Float(-71),
     market_line |-> Float(-26),
     result_correct |-> [kind |-> "bool", val |-> TRUE],
     variance_flag |-> "normal",
     injury_flag |-> "major",
     notes |-> "Giannis OUT"]

GameIdValues ==
    { <<"B", "O", "S", "M", "I", "L">>,
      <<"B", "O", "S", "@", "M", "I", "L", "@", "L", "A", "L">>,
      <<"b", "o", "s", "@", "M", "I", "L">>,
      <<"@", "M", "I", "L">>,
      <<"B", "O", "S", "@">>,
      <<"7", "6", "@", "B", "O", "S">>,
      <<"N", " ", "Y", "@", "B", "O", "S">> }

RowDicts ==
    { ExampleRow,
      [ExampleRow EXCEPT !.pick_type = "total_under_value", !.edge_points = Float(25),
                         !.result_correct = [kind |-> "bool", val |-> FALSE]],
      [ExampleRow EXCEPT !.present = @ \ {"notes"}] }
    \cup { [ExampleRow EXCEPT !.present = @ \ {REQUIRED_FIELDS[k]}] :
             k \in 1..Len(REQUIRED_FIELDS) }
    \cup { [ExampleRow EXCEPT !.pick_type = "moneyline"],
           [ExampleRow EXCEPT !.variance_flag = "chaos"],
           [ExampleRow EXCEPT !.injury_flag = "severe"] }
    \cup { [ExampleRow EXCEPT !.game_id = g] : g \in GameIdValues }
    \cup { [ExampleRow EXCEPT !.edge_points = [kind |-> k, num |-> 45]] :
             k \in {"str_numeric", "str", "none"} }
    \cup { [ExampleRow EXCEPT !.model_line = [kind |-> k, num |-> -71]] :
             k \in {"str_numeric", "str", "none"} }
    \cup { [ExampleRow EXCEPT !.market_line = [kind |-> k, num |-> -26]] :
             k \in {"str_numeric", "str", "none"} }
    \cup { [ExampleRow EXCEPT !.result_correct = [kind |-> k, val |-> TRUE]] :
             k \in {"int", "str"} }

LogFile == [exists |-> log_exists, header |-> log_header, rows |-> log_rows]

\* PerformanceLogger(): __init__ ends with _ensure_csv_exists.
ConstructLogger ==
    /\ LET f == _ensure_csv_exists(LogFile)
       IN  /\ log_exists' = f.exists
           /\ log_header' = f.header
           /\ log_rows' = f.rows
    /\ lg_constructed' = TRUE
    /\ UNCHANGED <<log_runs, log_last, lg_calls, lg_last_row, lg_last_outcome>>
    /\ UNCHANGED <<injVars, plVars, mgVars, adjVars, paVars, smVars, evVars, bsVars, pjVars, s3Vars, arVars, rsVars, s8Vars, epVars>>

\* One call of log_performance on a constructed logger.
LogPerformance ==
    /\ lg_constructed
    /\ lg_calls < MaxLogCalls
    /\ \E row_dict \in RowDicts :
          LET r == log_performance(LogFile, row_dict)
          IN  /\ log_exists' = r.file.exists
              /\ log_header' = r.file.header
              /\ log_rows' = r.file.rows
              /\ lg_last_row' = row_dict
              /\ lg_last_outcome' = IF r.raised THEN "raised" ELSE "logged"
    /\ lg_calls' = lg_calls + 1
    /\ UNCHANGED <<log_runs, log_last, lg_constructed>>
    /\ UNCHANGED <<injVars, plVars, mgVars, adjVars, paVars, smVars, evVars, bsVars, pjVars, s3Vars, arVars, rsVars, s8Vars, epVars>>

(***************************************************************************)
(* model_performance/outcome_fetcher.py                                    *)
(***************************************************************************)
TEAM_ABBREV_MAP ==
    {
      <<<<"A", "t", "l", "a", "n", "t", "a", " ", "H", "a", "w", "k", "s">>, <<"A", "T", "L">>>>,
      <<<<"B", "o", "s", "t", "o", "n", " ", "C", "e", "l", "t", "i", "c", "s">>, <<"B", "O", "S">>>>,
      <<<<"B", "r", "o", "o", "k", "l", "y", "n", " ", "N", "e", "t", "s">>, <<"B", "K", "N">>>>,
      <<<<"C", "h", "a", "r", "l", "o", "t", "t", "e", " ", "H", "o", "r", "n", "e", "t", "s">>, <<"C", "H", "A">>>>,
      <<<<"C", "h", "i", "c", "a", "g", "o", " ", "B", "u", "l", "l", "s">>, <<"C", "H", "I">>>>,
      <<<<"C", "l", "e", "v", "e", "l", "a", "n", "d", " ", "C", "a", "v", "a", "l", "i", "e", "r", "s">>, <<"C", "L", "E">>>>,
      <<<<"D", "a", "l", "l", "a", "s", " ", "M", "a", "v", "e", "r", "i", "c", "k", "s">>, <<"D", "A", "L">>>>,
      <<<<"D", "e", "n", "v", "e", "r", " ", "N", "u", "g", "g", "e", "t", "s">>, <<"D", "E", "N">>>>,
      <<<<"D", "e", "t", "r", "o", "i", "t", " ", "P", "i", "s", "t", "o", "n", "s">>, <<"D", "E", "T">>>>,
      <<<<"G", "o", "l", "d", "e", "n", " ", "S", "t", "a", "t", "e", " ", "W", "a", "r", "r", "i", "o", "r", "s">>, <<"G", "S", "W">>>>,
      <<<<"H", "o", "u", "s", "t", "o", "n", " ", "R", "o", "c", "k", "e", "t", "s">>, <<"H", "O", "U">>>>,
      <<<<"I", "n", "d", "i", "a", "n", "a", " ", "P", "a", "c", "e", "r", "s">>, <<"I", "N", "D">>>>,
      <<<<"L", "A", " ", "C", "l", "i", "p", "p", "e", "r", "s">>, <<"L", "A", "C">>>>,
      <<<<"L", "o", "s", " ", "A", "n", "g", "e", "l", "e", "s", " ", "C", "l", "i", "p", "p", "e", "r", "s">>, <<"L", "A", "C">>>>,
      <<<<"L", "o", "s", " ", "A", "n", "g", "e", "l", "e", "s", " ", "L", "a", "k", "e", "r", "s">>, <<"L", "A", "L">>>>,
      <<<<"M", "e", "m", "p", "h", "i", "s", " ", "G", "r", "i", "z", "z", "l", "i", "e", "s">>, <<"M", "E", "M">>>>,
      <<<<"M", "i", "a", "m", "i", " ", "H", "e", "a", "t">>, <<"M", "I", "A">>>>,
      <<<<"M", "i", "l", "w", "a", "u", "k", "e", "e", " ", "B", "u", "c", "k", "s">>, <<"M", "I", "L">>>>,
      <<<<"M", "i", "n", "n", "e", "s", "o", "t", "a", " ", "T", "i", "m", "b", "e", "r", "w", "o", "l", "v", "e", "s">>, <<"M", "I", "N">>>>,
      <<<<"N", "e", "w", " ", "O", "r", "l", "e", "a", "n", "s", " ", "P", "e", "l", "i", "c", "a", "n", "s">>, <<"N", "O", "P">>>>,
      <<<<"N", "e", "w", " ", "Y", "o", "r", "k", " ", "K", "n", "i", "c", "k", "s">>, <<"N", "Y", "K">>>>,
      <<<<"O", "k", "l", "a", "h", "o", "m", "a", " ", "C", "i", "t", "y", " ", "T", "h", "u", "n", "d", "e", "r">>, <<"O", "K", "C">>>>,
      <<<<"O", "r", "l", "a", "n", "d", "o", " ", "M", "a", "g", "i", "c">>, <<"O", "R", "L">>>>,
      <<<<"P", "h", "i", "l", "a", "d", "e", "l", "p", "h", "i", "a", " ", "7", "6", "e", "r", "s">>, <<"P", "H", "I">>>>,
      <<<<"P", "h", "o", "e", "n", "i", "x", " ", "S", "u", "n", "s">>, <<"P", "H", "X">>>>,
      <<<<"P", "o", "r", "t", "l", "a", "n", "d", " ", "T", "r", "a", "i", "l", " ", "B", "l", "a", "z", "e", "r", "s">>, <<"P", "O", "R">>>>,
      <<<<"S", "a", "c", "r", "a", "m", "e", "n", "t", "o", " ", "K", "i", "n", "g", "s">>, <<"S", "A", "C">>>>,
      <<<<"S", "a", "n", " ", "A", "n", "t", "o", "n", "i", "o", " ", "S", "p", "u", "r", "s">>, <<"S", "A", "S">>>>,
      <<<<"T", "o", "r", "o", "n", "t", "o", " ", "R", "a", "p", "t", "o", "r", "s">>, <<"T", "O", "R">>>>,
      <<<<"U", "t", "a", "h", " ", "J", "a", "z", "z">>, <<"U", "T", "A">>>>,
      <<<<"W", "a", "s", "h", "i", "n", "g", "t", "o", "n", " ", "W", "i", "z", "a", "r", "d", "s">>, <<"W", "A", "S">>>>
    }

get_team_abbrev(full_name) ==
    IF \E e \in TEAM_ABBREV_MAP : e[1] = full_name
    THEN (CHOOSE e \in TEAM_ABBREV_MAP : e[1] = full_name)[2]
    ELSE Upper(SubSeq(full_name, 1, Min2(3, Len(full_name))))

MakeGameId(away_name, home_name) ==
    get_team_abbrev(away_name) \o <<"@">> \o get_team_abbrev(home_name)

\* A variant that takes the margin from the away side.
ats_margin_of_away(game_info, market_spread) ==
    10 * (game_info.away_score - game_info.home_score) + market_spread

\* The home team's margin against the market spread, in tenths.
ats_margin(game_info, market_spread) ==
    LET actual_margin == game_info.home_score - game_info.away_score
    IN  10 * actual_margin + market_spread

\* A variant that calls edges below 2.0 too small, as for totals.
determine_spread_correctness_strict(game_info, model_spread, market_spread) ==
    LET ats == ats_margin(game_info, market_spread)
        model_edge == market_spread - model_spread
    IN  IF Abs(model_edge) < 20 THEN [correct |-> FALSE, notes |-> "Edge too small"]
        ELSE IF model_spread < market_spread
        THEN [correct |-> ats > 0, notes |-> "Actual"]
        ELSE [correct |-> ats < 0, notes |-> "Actual"]

\* (was_correct, notes); scores are whole points.
determine_spread_correctness(game_info, model_spread, market_spread) ==
    LET ats == ats_margin(game_info, market_spread)
        model_edge == market_spread - model_spread
    IN  IF Abs(model_edge) < 10 THEN [correct |-> FALSE, notes |-> "Edge too small"]
        ELSE IF model_spread < market_spread
        THEN [correct |-> ats > 0, notes |-> "Actual"]
        ELSE [correct |-> ats < 0, notes |-> "Actual"]

determine_total_correctness(game_info, model_total, market_total) ==
    LET actual_total == 10 * (game_info.home_score + game_info.away_score)
        model_edge == model_total - market_total
    IN  IF Abs(model_edge) < 20 THEN [correct |-> FALSE, notes |-> "Edge too small"]
        ELSE IF model_total > market_total
        THEN [correct |-> actual_total > market_total, notes |-> "Actual"]
        ELSE [correct |-> actual_total < market_total, notes |-> "Actual"]

\* A variant that never looks for a flipped favourite.
classify_pick_type_noflip(edge, is_spread, model_line, market_line) ==
    LET edge_abs == Abs(edge)
    IN  IF is_spread
        THEN IF edge_abs >= 40 THEN "spread_big_edge"
             ELSE IF edge_abs >= 20
                  THEN IF market_line > 0 THEN "spread_dog_value" ELSE "spread_fav_small"
             ELSE "spread_dog_value"
        ELSE IF edge_abs >= 40
             THEN IF model_line > market_line THEN "total_over_big_edge"
                  ELSE "total_under_big_edge"
             ELSE IF model_line > market_line THEN "total_over_value"
                  ELSE "total_under_value"

classify_pick_type(edge, is_spread, model_line, market_line) ==
    LET edge_abs == Abs(edge)
    IN  IF is_spread
        THEN IF (model_line < 0) # (market_line < 0) THEN "flipped_favorite"
             ELSE IF edge_abs >= 40 THEN "spread_big_edge"
             ELSE IF edge_abs >= 20
                  THEN IF market_line > 0 THEN "spread_dog_value" ELSE "spread_fav_small"
             ELSE "spread_dog_value"
        ELSE IF edge_abs >= 40
             THEN IF model_line > market_line THEN "total_over_big_edge"
                  ELSE "total_under_big_edge"
             ELSE IF model_line > market_line THEN "total_over_value"
                  ELSE "total_under_value"

determine_variance_flag(game_info) ==
    LET margin == Abs(game_info.home_score - game_info.away_score)
        total == game_info.home_score + game_info.away_score
    IN  IF margin <= 3 THEN "high_variance"
        ELSE IF total >= 260 THEN "high_variance"
        ELSE "normal"

determine_injury_flag(prediction) ==
    LET max_impact == Max2(Abs(prediction.home_total_adjustment),
                           Abs(prediction.away_total_adjustment))
    IN  IF max_impact >= 20 THEN "major"
        ELSE IF max_impact >= 5 THEN "minor"
        ELSE "none"

\* dict.get(key, default) on the spread / total dicts of a prediction: the
\* adjusted value when the key is there, the baseline otherwise.
GetOr(adjusted, baseline) == IF adjusted # <<>> THEN adjusted ELSE baseline

\* The edges below which evaluate_game prepares no spread row and no total
\* row.
SpreadEdgeThreshold == 10

TotalEdgeThreshold == 20

\* The rows evaluate_game prepares; the empty sequence stands for None.
evaluate_game(game_info, prediction, odds) ==
    LET model_spread == GetOr(prediction.spread_rest_adjusted, prediction.spread_baseline)
        model_total == GetOr(prediction.total_pace_adjusted, prediction.total_baseline)
    IN  IF model_spread = <<>> \/ model_total = <<>> THEN <<>>
        ELSE IF odds.spread = <<>> \/ odds.total = <<>> THEN <<>>
        ELSE
            LET ms == model_spread[1]
                mt == model_total[1]
                ks == odds.spread[1]
                kt == odds.total[1]
                variance_flag == determine_variance_flag(game_info)
                injury_flag == determine_injury_flag(prediction)
                spread_edge == ks - ms
                total_edge == mt - kt
                spread_result == determine_spread_correctness(game_info, ms, ks)
                total_result == determine_total_correctness(game_info, mt, kt)
                spread_rows ==
                    IF Abs(spread_edge) >= SpreadEdgeThreshold
                    THEN <<[date |-> game_info.date,
                            game_id |-> game_info.game_id,
                            pick_type |-> classify_pick_type(spread_edge, TRUE, ms, ks),
                            edge_points |-> Abs(spread_edge),
                            model_line |-> ms,
                            market_line |-> ks,
                            result_correct |-> spread_result.correct,
                            variance_flag |-> variance_flag,
                            injury_flag |-> injury_flag,
                            notes |-> spread_result.notes]>>
                    ELSE <<>>
                total_rows ==
                    IF Abs(total_edge) >= TotalEdgeThreshold
                    THEN <<[date |-> game_info.date,
                            game_id |-> game_info.game_id,
                            pick_type |-> classify_pick_type(total_edge, FALSE, mt, kt),
                            edge_points |-> Abs(total_edge),
                            model_line |-> mt,
                            market_line |-> kt,
                            result_correct |-> total_result.correct,
                            variance_flag |-> variance_flag,
                            injury_flag |-> injury_flag,
                            notes |-> total_result.notes]>>
                    ELSE <<>>
            IN  spread_rows \o total_rows

EntryKey(row) == <<row.date, row.game_id, row.pick_type>>

\* A variant that never finds earlier entries.
get_existing_entries_none(exists, rows) == {}

\* The keys of the rows of the log file, read back from it.
get_existing_entries(exists, rows) ==
    IF ~exists THEN {}
    ELSE {EntryKey(rows[idx]) : idx \in 1..Len(rows)}

\* The first prediction of the file whose teams give the game's id.
FindPrediction(predictions, game_id) ==
    LET matches == {idx \in 1..Len(predictions) :
                        MakeGameId(predictions[idx].away_team,
                                   predictions[idx].home_team) = game_id}
    IN  IF matches = {} THEN <<>>
        ELSE <<predictions[CHOOSE idx \in matches : \A other \in matches : idx <= other]>>

\* for row in rows: skip a key already seen, else validate, append to the
\* file (which the logger creates on first use) and remember the key.  st is
\* the state of the run; once st.raised the exception is on its way out.
RECURSIVE LogRows(_, _, _)
LogRows(rows, idx, st) ==
    IF idx > Len(rows) \/ st.raised THEN st
    ELSE
        LET row == rows[idx]
            entry_key == EntryKey(row)
        IN  IF entry_key \in st.existing_entries
            THEN LogRows(rows, idx + 1, [st EXCEPT !.total_skipped = @ + 1])
            ELSE IF _validate_row_raises(row)
            THEN [_ensure_csv_exists(st) EXCEPT !.raised = TRUE]
            ELSE LogRows(rows, idx + 1,
                    [_ensure_csv_exists(st) EXCEPT
                               !.rows = Append(@, csv_row(row)),
                               !.existing_entries = @ \cup {entry_key},
                               !.total_logged = @ + 1])

\* for game in games
RECURSIVE ProcessGames(_, _, _, _, _)
ProcessGames(games, predictions, odds, idx, st) ==
    IF idx > Len(games) \/ st.raised THEN st
    ELSE
        LET game == games[idx]
            prediction == FindPrediction(predictions, game.game_id)
        IN  IF prediction = <<>> THEN ProcessGames(games, predictions, odds, idx + 1, st)
            ELSE IF odds = <<>> THEN ProcessGames(games, predictions, odds, idx + 1, st)
            ELSE ProcessGames(games, predictions, odds, idx + 1,
                    LogRows(evaluate_game(game, prediction[1], odds[1]), 1, st))

\* update_performance_log, given the file and what the scoreboard, the
\* prediction file (<<>>: none) and the odds endpoint (<<>>: none) answer.
update_performance_log(exists, header, rows, games, prediction_file, odds) ==
    LET st0 == [exists |-> exists, header |-> header, rows |-> rows,
                existing_entries |-> get_existing_entries(exists, rows),
                total_logged |-> 0, total_skipped |-> 0, raised |-> FALSE,
                outcome |-> "done"]
    IN  IF games = <<>> THEN [st0 EXCEPT !.outcome = "no_games"]
        ELSE IF prediction_file = <<>> \/ prediction_file[1] = <<>>
        THEN [st0 EXCEPT !.outcome = "no_predictions"]
        ELSE
            LET st == ProcessGames(games, prediction_file[1], odds, 1, st0)
            IN  [st EXCEPT !.outcome = IF st.raised THEN "raised" ELSE "done"]

\* Inputs.  Yesterday's scoreboard: two regular games and one whose away
\* team has no display name.
MaxRuns == 2

Yesterday == "2025-12-10"

N_BOS == <<"B", "o", "s", "t", "o", "n", " ", "C", "e", "l", "t", "i", "c", "s">>

N_MIL == <<"M", "i", "l", "w", "a", "u", "k", "e", "e", " ", "B", "u", "c", "k", "s">>

N_LAL == <<"L", "o", "s", " ", "A", "n", "g", "e", "l", "e", "s", " ", "L", "a", "k", "e", "r", "s">>

N_MIA == <<"M", "i", "a", "m", "i", " ", "H", "e", "a", "t">>

GameInfo(away_name, home_name, away_score, home_score) ==
    [home_team |-> home_name, away_team |-> away_name,
     home_score |-> home_score, away_score |-> away_score,
     game_id |-> MakeGameId(away_name, home_name),
     date |-> Yesterday]

Game1 == GameInfo(N_BOS, N_MIL, 100, 110)

Game2 == GameInfo(N_LAL, N_MIA, 131, 130)

Game3 == GameInfo(<<>>, N_MIL, 90, 99)

ScoreboardAnswers ==
    { <<>>, <<Game1>>, <<Game1, Game2>>, <<Game2, Game1>>, <<Game1, Game1>>,
      <<Game3, Game1>>, <<Game1, Game3>> }

Prediction(away_name, home_name, spread, total) ==
    [home_team |-> home_name, away_team |-> away_name,
     spread_baseline |-> <<spread>>, spread_rest_adjusted |-> <<spread>>,
     total_baseline |-> <<total>>, total_pace_adjusted |-> <<total>>,
     home_total_adjustment |-> 0, away_total_adjustment |-> 0]

ModelSpreads == {-55, 20}

ModelTotal == 2200

PredictionFiles ==
    { <<>> } \cup
    { << <<Prediction(N_BOS, N_MIL, ms, ModelTotal),
           Prediction(N_LAL, N_MIA, ms, ModelTotal),
           Prediction(<<>>, N_MIL, ms, ModelTotal)>> >> : ms \in ModelSpreads } \cup
    { << <<Prediction(N_LAL, N_MIA, ms, ModelTotal)>> >> : ms \in ModelSpreads }

OddsAnswers ==
    { <<>> } \cup
    { <<[spread |-> <<ks>>, total |-> <<kt>>]>> : ks \in {-20, -50}, kt \in {2150, 2200} }

NoLastRun == [outcome |-> "none", total_logged |-> 0, total_skipped |-> 0]

\* One run of the outcome fetcher.
UpdatePerformanceLog ==
    /\ log_runs < MaxRuns
    /\ \E games \in ScoreboardAnswers,
          prediction_file \in PredictionFiles,
          odds \in OddsAnswers :
          LET st == update_performance_log(log_exists, log_header, log_rows, games,
                                           prediction_file, odds)
          IN  /\ log_exists' = st.exists
              /\ log_header' = st.header
              /\ log_rows' = st.rows
              /\ log_last' = [outcome |-> st.outcome, total_logged |-> st.total_logged,
                              total_skipped |-> st.total_skipped]
    /\ log_runs' = log_runs + 1
    /\ UNCHANGED <<injVars, plVars, mgVars, adjVars, paVars, smVars, lgVars, evVars, bsVars, pjVars, s3Vars, arVars, rsVars, s8Vars, epVars>>

\* Inputs of evaluate_game and classify_pick_type called on their own.
EvalScores == { <<110, 100>>, <<100, 110>>, <<112, 110>>, <<135, 130>> }

EvalModelSpreads == {-71, -36, -35, -16, 15}

EvalMarketSpreads == {-26, -25, -20, 0, 25}

EvalModelTotals == {2200, 2219, 2220, 2260}

EvalMarketTotals == {2200, 2240}

\* How the prediction file holds the lines: both the adjusted and the
\* baseline value, the baseline alone, or neither.
EvalPredictionShapes == {"adjusted", "baseline_only", "missing"}

EvalPrediction(shape, ms, mt) ==
    [home_team |-> N_MIL, away_team |-> N_BOS,
     spread_baseline |-> IF shape = "missing" THEN <<>>
                         ELSE IF shape = "adjusted" THEN <<ms + 30>> ELSE <<ms>>,
     spread_rest_adjusted |-> IF shape = "adjusted" THEN <<ms>> ELSE <<>>,
     total_baseline |-> IF shape = "adjusted" THEN <<mt - 40>> ELSE <<mt>>,
     total_pace_adjusted |-> IF shape = "adjusted" THEN <<mt>> ELSE <<>>,
     home_total_adjustment |-> 0, away_total_adjustment |-> 0]

EvaluateGame ==
    /\ ev_op = "none"
    /\ \E scores \in EvalScores,
          ms \in EvalModelSpreads,
          ks \in EvalMarketSpreads,
          mt \in EvalModelTotals,
          kt \in EvalMarketTotals,
          shape \in EvalPredictionShapes,
          odds_present \in BOOLEAN :
          LET game_info == GameInfo(N_BOS, N_MIL, scores[2], scores[1])
              prediction == EvalPrediction(shape, ms, mt)
              odds == IF odds_present THEN [spread |-> <<ks>>, total |-> <<kt>>]
                      ELSE [spread |-> <<>>, total |-> <<kt>>]
          IN  /\ ev_input' = [game_info |-> game_info, prediction |-> prediction,
                              odds |-> odds,
                              lines_known |-> shape # "missing" /\ odds_present,
                              model_spread |-> ms, market_spread |-> ks,
                              model_total |-> mt, market_total |-> kt]
              /\ ev_result' = evaluate_game(game_info, prediction, odds)
    /\ ev_op' = "evaluate"
    /\ UNCHANGED <<injVars, plVars, mgVars, adjVars, logVars, paVars, smVars, lgVars, bsVars, pjVars, s3Vars, arVars, rsVars, s8Vars, epVars>>

ClassifyEdges == {-45, -40, -39, -20, -19, -10, 0, 10, 19, 20, 39, 40, 45}

ClassifyLines == {-71, -26, -1, 0, 1, 26, 2200, 2240}

ClassifyPickType ==
    /\ ev_op = "none"
    /\ \E edge \in ClassifyEdges,
          is_spread \in BOOLEAN,
          model_line \in ClassifyLines,
          market_line \in ClassifyLines :
          /\ ev_input' = [edge |-> edge, is_spread |-> is_spread,
                          model_line |-> model_line, market_line |-> market_line]
          /\ ev_result' = classify_pick_type(edge, is_spread, model_line, market_line)
    /\ ev_op' = "classify"
    /\ UNCHANGED <<injVars, plVars, mgVars, adjVars, logVars, paVars, smVars, lgVars, bsVars, pjVars, s3Vars, arVars, rsVars, s8Vars, epVars>>

(***************************************************************************)
(* master_projection_engine.py: run_full_pipeline and project_all_games    *)
(*   The values the steps compute are modelled by the operators above;     *)
(*   here the steps are the statements of run_full_pipeline, taken one at  *)
(*   a time, any of which may raise.                                       *)
(***************************************************************************)
\* The calls of run_full_pipeline in statement order: <<team, step>>.
PipelineStatementsProjectEarly ==
    << <<"home", 1>>, <<"home", 2>>, <<"home", 3>>, <<"home", 4>>, <<"home", 5>>, <<"home", 6>>,
       <<"away", 1>>, <<"away", 2>>, <<"away", 3>>, <<"away", 4>>, <<"away", 5>>,
       <<"game", 7>>, <<"away", 6>>, <<"game", 8>>, <<"game", 9>> >>

PipelineStatements ==
    << <<"home", 1>>, <<"home", 2>>, <<"home", 3>>, <<"home", 4>>, <<"home", 5>>, <<"home", 6>>,
       <<"away", 1>>, <<"away", 2>>, <<"away", 3>>, <<"away", 4>>, <<"away", 5>>, <<"away", 6>>,
       <<"game", 7>>, <<"game", 8>>, <<"game", 9>> >>

\* Today's scoreboard, as (away_team, home_team); a slate is a prefix of it.
MaxSlate == 2

TodaysMatchups == << <<N_BOS, N_MIL>>, <<N_LAL, N_MIA>>, <<N_MIA, N_BOS>>, <<N_MIL, N_LAL>> >>

Slates == { SubSeq(TodaysMatchups, 1, n) : n \in 0..MaxSlate }

\* project_all_games is entered; PERFORMANCE_TRACKING_ENABLED was fixed when
\* the module was imported.
StartProjectAllGames ==
    /\ pa_pc = "idle"
    /\ pa_tracking' \in BOOLEAN
    /\ pa_pc' = "evaluate"
    /\ UNCHANGED <<pa_matchups, pa_idx, pa_all_projections, pa_failed, pa_summary, pa_saved,
                   pipe_status, pipe_pc, pipe_trace>>
    /\ UNCHANGED <<injVars, plVars, mgVars, adjVars, logVars, smVars, lgVars, evVars, bsVars, pjVars, s3Vars, arVars, rsVars, s8Vars, epVars>>

\* STEP 0: one run of the outcome fetcher when tracking is on; an exception
\* from it is caught and the run goes on.
EvaluateYesterdaysPredictions ==
    /\ pa_pc = "evaluate"
    /\ IF pa_tracking
       THEN \E games \in ScoreboardAnswers,
               prediction_file \in PredictionFiles,
               odds \in OddsAnswers :
               LET st == update_performance_log(log_exists, log_header, log_rows, games,
                                                prediction_file, odds)
               IN  /\ log_exists' = st.exists
                   /\ log_header' = st.header
                   /\ log_rows' = st.rows
                   /\ log_last' = [outcome |-> st.outcome, total_logged |-> st.total_logged,
                                   total_skipped |-> st.total_skipped]
                   /\ log_runs' = log_runs + 1
       ELSE UNCHANGED logVars
    /\ pa_pc' = "schedule"
    /\ UNCHANGED <<pa_tracking, pa_matchups, pa_idx, pa_all_projections, pa_failed,
                   pa_summary, pa_saved, pipe_status, pipe_pc, pipe_trace>>
    /\ UNCHANGED <<injVars, plVars, mgVars, adjVars, smVars, lgVars, evVars, bsVars, pjVars, s3Vars, arVars, rsVars, s8Vars, epVars>>

\* get_todays_games: the slate, or an exception when the request fails,
\* which nothing catches.  An empty slate ends the run.
GetTodaysGames ==
    /\ pa_pc = "schedule"
    /\ \/ \E matchups \in Slates :
            /\ pa_matchups' = matchups
            /\ pa_pc' = IF matchups = <<>> THEN "returned" ELSE "loop"
       \/ /\ pa_pc' = "crashed"
          /\ UNCHANGED pa_matchups
    /\ UNCHANGED <<pa_tracking, pa_idx, pa_all_projections, pa_failed, pa_summary, pa_saved,
                   pipe_status, pipe_pc, pipe_trace>>
    /\ UNCHANGED <<injVars, plVars, mgVars, adjVars, logVars, smVars, lgVars, evVars, bsVars, pjVars, s3Vars, arVars, rsVars, s8Vars, epVars>>

\* The loop takes the next matchup and calls run_full_pipeline.
BeginMatchup ==
    /\ pa_pc = "loop"
    /\ pipe_status # "running"
    /\ pa_idx < Len(pa_matchups)
    /\ pa_idx' = pa_idx + 1
    /\ pipe_status' = "running"
    /\ pipe_pc' = 1
    /\ pipe_trace' = <<>>
    /\ UNCHANGED <<pa_pc, pa_tracking, pa_matchups, pa_all_projections, pa_failed,
                   pa_summary, pa_saved>>
    /\ UNCHANGED <<injVars, plVars, mgVars, adjVars, logVars, smVars, lgVars, evVars, bsVars, pjVars, s3Vars, arVars, rsVars, s8Vars, epVars>>

\* The statement at pipe_pc completes.
RunPipelineStep ==
    /\ pipe_status = "running"
    /\ pipe_pc <= Len(PipelineStatements)
    /\ pipe_trace' = Append(pipe_trace, PipelineStatements[pipe_pc])
    /\ pipe_pc' = pipe_pc + 1
    /\ UNCHANGED <<pa_pc, pa_tracking, pa_matchups, pa_idx, pa_all_projections, pa_failed,
                   pa_summary, pa_saved, pipe_status>>
    /\ UNCHANGED <<injVars, plVars, mgVars, adjVars, logVars, smVars, lgVars, evVars, bsVars, pjVars, s3Vars, arVars, rsVars, s8Vars, epVars>>

\* A variant in which the exception leaves the loop.
RaiseInPipelineStepEndsLoop ==
    /\ pipe_status = "running"
    /\ pipe_pc <= Len(PipelineStatements)
    /\ pipe_status' = "raised"
    /\ pa_failed' = pa_failed \cup {pa_idx}
    /\ pa_idx' = Len(pa_matchups)
    /\ UNCHANGED <<pa_pc, pa_tracking, pa_matchups, pa_all_projections,
                   pa_summary, pa_saved, pipe_pc, pipe_trace>>
    /\ UNCHANGED <<injVars, plVars, mgVars, adjVars, logVars, smVars, lgVars, evVars, bsVars, pjVars, s3Vars, arVars, rsVars, s8Vars, epVars>>

\* The statement at pipe_pc raises: run_full_pipeline is left, the except
\* clause of project_all_games reports the matchup and continues the loop.
RaiseInPipelineStep ==
    /\ pipe_status = "running"
    /\ pipe_pc <= Len(PipelineStatements)
    /\ pipe_status' = "raised"
    /\ pa_failed' = pa_failed \cup {pa_idx}
    /\ UNCHANGED <<pa_pc, pa_tracking, pa_matchups, pa_idx, pa_all_projections,
                   pa_summary, pa_saved, pipe_pc, pipe_trace>>
    /\ UNCHANGED <<injVars, plVars, mgVars, adjVars, logVars, smVars, lgVars, evVars, bsVars, pjVars, s3Vars, arVars, rsVars, s8Vars, epVars>>

\* run_full_pipeline returns its composite result, which the loop appends.
ReturnPipelineResult ==
    /\ pipe_status = "running"
    /\ pipe_pc = Len(PipelineStatements) + 1
    /\ pipe_status' = "returned"
    /\ pa_all_projections' = Append(pa_all_projections, pa_matchups[pa_idx])
    /\ UNCHANGED <<pa_pc, pa_tracking, pa_matchups, pa_idx, pa_failed,
                   pa_summary, pa_saved, pipe_pc, pipe_trace>>
    /\ UNCHANGED <<injVars, plVars, mgVars, adjVars, logVars, smVars, lgVars, evVars, bsVars, pjVars, s3Vars, arVars, rsVars, s8Vars, epVars>>

\* After the loop: print_summary(all_projections).
PrintSummary ==
    /\ pa_pc = "loop"
    /\ pipe_status # "running"
    /\ pa_idx = Len(pa_matchups)
    /\ pa_summary' = pa_all_projections
    /\ pa_pc' = "save"
    /\ UNCHANGED <<pa_tracking, pa_matchups, pa_idx, pa_all_projections, pa_failed,
                   pa_saved, pipe_status, pipe_pc, pipe_trace>>
    /\ UNCHANGED <<injVars, plVars, mgVars, adjVars, logVars, smVars, lgVars, evVars, bsVars, pjVars, s3Vars, arVars, rsVars, s8Vars, epVars>>

\* FINAL STEP: with tracking on and something projected, the projections are
\* handed to save_predictions; an exception there is caught.  <<games>> is
\* what this run wrote, <<>> nothing.
SavePredictionsForTracking ==
    /\ pa_pc = "save"
    /\ IF pa_tracking /\ pa_all_projections # <<>>
       THEN \/ pa_saved' = <<pa_all_projections>>
            \/ UNCHANGED pa_saved
       ELSE UNCHANGED pa_saved
    /\ pa_pc' = "returned"
    /\ UNCHANGED <<pa_tracking, pa_matchups, pa_idx, pa_all_projections, pa_failed,
                   pa_summary, pipe_status, pipe_pc, pipe_trace>>
    /\ UNCHANGED <<injVars, plVars, mgVars, adjVars, logVars, smVars, lgVars, evVars, bsVars, pjVars, s3Vars, arVars, rsVars, s8Vars, epVars>>

(***************************************************************************)
(* nba_statistical_model.py: project_all_games                             *)
(***************************************************************************)
\* self.all_teams, the provider's static team table: the rows of the teams
\* that play in the modelled schedules.
all_teams ==
    {
      [full_name |-> <<"B", "o", "s", "t", "o", "n", " ", "C", "e", "l", "t", "i", "c", "s">>,
       nickname |-> <<"C", "e", "l", "t", "i", "c", "s">>, abbreviation |-> <<"B", "O", "S">>],
      [full_name |-> <<"M", "i", "l", "w", "a", "u", "k", "e", "e", " ", "B", "u", "c", "k", "s">>,
       nickname |-> <<"B", "u", "c", "k", "s">>, abbreviation |-> <<"M", "I", "L">>],
      [full_name |-> <<"L", "o", "s", " ", "A", "n", "g", "e", "l", "e", "s", " ", "L", "a", "k", "e", "r", "s">>,
       nickname |-> <<"L", "a", "k", "e", "r", "s">>, abbreviation |-> <<"L", "A", "L">>],
      [full_name |-> <<"M", "i", "a", "m", "i", " ", "H", "e", "a", "t">>,
       nickname |-> <<"H", "e", "a", "t">>, abbreviation |-> <<"M", "I", "A">>]
    }

LowerChar(ch) == IF IsUpperChar(ch) THEN CHOOSE k \in DOMAIN UpperMap : UpperMap[k] = ch ELSE ch

\* str.lower()
Lower(s) == [idx \in 1..Len(s) |-> LowerChar(s[idx])]

\* TRUE when get_team_id finds a team, FALSE when it raises ValueError.
get_team_id_found(team_name) ==
    \E team \in all_teams :
        \/ Contains(Lower(team.full_name), Lower(team_name))
        \/ Contains(Lower(team.nickname), Lower(team_name))
        \/ Contains(Lower(team.abbreviation), Lower(team_name))

\* _espn_abbr_to_full_name: the full name of the team with that
\* abbreviation, or the abbreviation itself when there is none.  None of the
\* six ESPN spellings it rewrites belongs to a modelled team.
_espn_abbr_to_full_name(abbr) ==
    IF \E team \in all_teams : team.abbreviation = abbr
    THEN (CHOOSE team \in all_teams : team.abbreviation = abbr).full_name
    ELSE abbr

\* TRUE when project_game raises: pull_team_data looks both teams up before
\* anything else, outside any try.
project_game_raises(home_team, away_team) ==
    ~get_team_id_found(home_team) \/ ~get_team_id_found(away_team)

\* Inputs: the events of the scoreboard as (away, home) abbreviations; EAST
\* and WEST are not teams of the table.
MaxSchedule == 3

A_BOS == <<"B", "O", "S">>

A_MIL == <<"M", "I", "L">>

A_LAL == <<"L", "A", "L">>

A_MIA == <<"M", "I", "A">>

A_EAST == <<"E", "A", "S", "T">>

A_WEST == <<"W", "E", "S", "T">>

ScoreboardEvents == { <<A_BOS, A_MIL>>, <<A_LAL, A_MIA>>, <<A_EAST, A_WEST>>, <<A_MIA, A_WEST>> }

ScheduleGame(event) ==
    [away_team |-> _espn_abbr_to_full_name(event[1]),
     home_team |-> _espn_abbr_to_full_name(event[2])]

Schedules ==
    { [idx \in 1..Len(events) |-> ScheduleGame(events[idx])] :
        events \in SeqsUpTo(ScoreboardEvents, MaxSchedule) }

\* get_todays_schedule; an empty schedule ends project_all_games.
SM_GetTodaysSchedule ==
    /\ sm_pc = "idle"
    /\ \E schedule \in Schedules :
          /\ sm_schedule' = schedule
          /\ sm_pc' = IF schedule = <<>> THEN "returned" ELSE "loop"
    /\ UNCHANGED <<sm_idx, sm_projections>>
    /\ UNCHANGED <<injVars, plVars, mgVars, adjVars, logVars, paVars, lgVars, evVars, bsVars, pjVars, s3Vars, arVars, rsVars, s8Vars, epVars>>

\* One iteration of the loop: project_game for the next game.  The call is
\* not inside a try, so an exception from it leaves project_all_games.
SM_ProjectGame ==
    /\ sm_pc = "loop"
    /\ sm_idx < Len(sm_schedule)
    /\ LET game == sm_schedule[sm_idx + 1]
       IN  IF project_game_raises(game.home_team, game.away_team)
           THEN /\ sm_pc' = "raised"
                /\ UNCHANGED <<sm_idx, sm_projections>>
           ELSE /\ sm_projections' = Append(sm_projections, game)
                /\ sm_idx' = sm_idx + 1
                /\ UNCHANGED sm_pc
    /\ UNCHANGED sm_schedule
    /\ UNCHANGED <<injVars, plVars, mgVars, adjVars, logVars, paVars, lgVars, evVars, bsVars, pjVars, s3Vars, arVars, rsVars, s8Vars, epVars>>

\* return projections
SM_ReturnProjections ==
    /\ sm_pc = "loop"
    /\ sm_idx = Len(sm_schedule)
    /\ sm_pc' = "returned"
    /\ UNCHANGED <<sm_schedule, sm_idx, sm_projections>>
    /\ UNCHANGED <<injVars, plVars, mgVars, adjVars, logVars, paVars, lgVars, evVars, bsVars, pjVars, s3Vars, arVars, rsVars, s8Vars, epVars>>

(***************************************************************************)
(* master_projection_engine.py and nba_statistical_model.py: baseline      *)
(*   statistics.  A provider response maps each category to its table, or  *)
(*   to <<>> when the key is absent; a table maps each field to <<v>>, or  *)
(*   to <<>> when the key is absent.  Values are in hundredths; weighted   *)
(*   values keep the exact scale noted at each definition.                 *)
(***************************************************************************)
LAST5_WEIGHT == 65

SEASON_WEIGHT == 35

PACE_DAMPENING == 6

LEAGUE_AVG_PACE == 9850

categories == <<"Base", "Advanced", "Four Factors", "Misc", "Scoring", "Opponent">>

stats_to_adjust ==
    << <<"Advanced", "OFF_RATING">>, <<"Advanced", "DEF_RATING">>, <<"Advanced", "PACE">>,
       <<"Four Factors", "EFG_PCT">>, <<"Four Factors", "TOV_PCT">>,
       <<"Four Factors", "OREB_PCT">>, <<"Four Factors", "FTA_RATE">>,
       <<"Four Factors", "OPP_EFG_PCT">>, <<"Four Factors", "OPP_TOV_PCT">>,
       <<"Four Factors", "OPP_OREB_PCT">>, <<"Four Factors", "OPP_FTA_RATE">>,
       <<"Base", "FG3_PCT">>, <<"Base", "FG_PCT">>,
       <<"Opponent", "OPP_FG_PCT">>, <<"Opponent", "OPP_FG3_PCT">>,
       <<"Misc", "PTS_OFF_TOV">>, <<"Misc", "PTS_2ND_CHANCE">>,
       <<"Misc", "PTS_FB">>, <<"Misc", "PTS_PAINT">> >>

CategorySet == {categories[k] : k \in 1..Len(categories)}

StatSet == {stats_to_adjust[k][2] : k \in 1..Len(stats_to_adjust)}

\* The number of attempts of the retry loop.
DashboardAttempts == 3

\* The window get_team_dashboard asks the provider for.
effective_last_n(last_n) == IF last_n <= 0 THEN 5 ELSE last_n

\* pd.Series(data.get(category, {})): an absent category is an empty table.
EmptyTable == [stat \in StatSet |-> <<>>]

Series(data, category) == IF data[category] = <<>> THEN EmptyTable ELSE data[category][1]

\* The blend of step_1_load_baseline_stats from the two responses; reading
\* an absent field of a table raises KeyError.
step_1_blend(team_name, season_data, last5_data) ==
    LET team_season == Series(season_data, "Advanced")
        team_last5 == Series(last5_data, "Advanced")
        fields == {"OFF_RATING", "DEF_RATING", "PACE"}
    IN  IF \E f \in fields : team_last5[f] = <<>> \/ team_season[f] = <<>>
        THEN [error |-> "KeyError", baseline |-> <<>>]
        ELSE
            \* weighted values in units of 1/10000
            LET off_rtg_weighted == team_last5["OFF_RATING"][1] * LAST5_WEIGHT
                                    + team_season["OFF_RATING"][1] * SEASON_WEIGHT
                def_rtg_weighted == team_last5["DEF_RATING"][1] * LAST5_WEIGHT
                                    + team_season["DEF_RATING"][1] * SEASON_WEIGHT
                pace_weighted == team_last5["PACE"][1] * LAST5_WEIGHT
                                 + team_season["PACE"][1] * SEASON_WEIGHT
                \* in units of 1/100000
                pace_dampened == LEAGUE_AVG_PACE * 1000
                                 + (pace_weighted - LEAGUE_AVG_PACE * 100) * PACE_DAMPENING
            IN  [error |-> "none",
                 baseline |-> <<[team_name |-> team_name,
                                 off_rating_base |-> RoundHalfEven(off_rtg_weighted, 100),
                                 def_rating_base |-> RoundHalfEven(def_rtg_weighted, 100),
                                 pace_base |-> RoundHalfEven(pace_dampened, 1000)]>>]

\* The requests of pull_team_data, in order: the window each asks for.
PullRequests == <<5, 5, 5, 5, 5, 5, 0, 0, 0, 0, 0, 0, 5>>

\* One entry of team_data: None (<<>>) when the request raised or the
\* response was empty, the category's table otherwise.
PulledCategory(answer, category) ==
    IF answer = <<>> THEN <<>>
    ELSE IF \A c \in CategorySet : answer[1][c] = <<>> THEN <<>>
    ELSE <<Series(answer[1], category)>>

\* answers[k] is what the k-th request gave: <<>> for an exception, <<data>>
\* for a response.
pull_team_data(answers) ==
    [last5 |-> [c \in CategorySet |->
                    PulledCategory(answers[CHOOSE k \in 1..6 : categories[k] = c], c)],
     season |-> [c \in CategorySet |->
                    PulledCategory(answers[6 + (CHOOSE k \in 1..6 : categories[k] = c)], c)],
     opponent_last5 |-> PulledCategory(answers[13], "Opponent")]

\* One window's value of a stat: 0 for a category that is None; raises
\* stands for the KeyError of an absent field.
WindowValue(entry, stat) ==
    IF entry = <<>> THEN [raises |-> FALSE, val |-> 0]
    ELSE IF entry[1][stat] = <<>> THEN [raises |-> TRUE, val |-> 0]
    ELSE [raises |-> FALSE, val |-> entry[1][stat][1]]

\* adjusted_stats, each value in units of 1/10000.
stage1_recency_weighting(team_data) ==
    [stat \in StatSet |->
        LET category == stats_to_adjust[CHOOSE k \in 1..Len(stats_to_adjust) :
                                            stats_to_adjust[k][2] = stat][1]
            last5_val == WindowValue(team_data.last5[category], stat)
            season_val == WindowValue(team_data.season[category], stat)
        IN  IF last5_val.raises \/ season_val.raises THEN 0
            ELSE last5_val.val * LAST5_WEIGHT + season_val.val * SEASON_WEIGHT]

\* Provider responses: complete ones at two levels, and ones that lack a
\* category or a field.
StatLevel(stat, level) ==
    CASE stat = "OFF_RATING" -> 11230 + 600 * level
      [] stat = "DEF_RATING" -> 11010 + 400 * level
      [] stat = "PACE" -> 9710 + 400 * level
      [] OTHER -> 5000 + 250 * level

Dashboard(missing_categories, missing_fields, level) ==
    [c \in CategorySet |->
        IF c \in missing_categories THEN <<>>
        ELSE <<[stat \in StatSet |->
                    IF stat \in missing_fields THEN <<>> ELSE <<StatLevel(stat, level)>>]>>]

Dashboards ==
    { Dashboard({}, {}, 0),
      Dashboard({}, {}, 1),
      Dashboard({"Advanced"}, {}, 0),
      Dashboard({}, {"OFF_RATING"}, 1),
      Dashboard({}, {"PACE"}, 0),
      Dashboard(CategorySet, {}, 0) }

ProviderErrors == {"HTTPError", "ConnectionError"}

T_BOS == <<"B", "o", "s", "t", "o", "n", " ", "C", "e", "l", "t", "i", "c", "s">>

NewCall(last_n) ==
    [last_n |-> last_n, sent |-> <<>>, outcomes |-> <<>>, sleeps |-> 0, status |-> "running"]

\* The running call after one more attempt that ended as outcome.
Attempted(call, outcome) ==
    [call EXCEPT !.sent = Append(@, effective_last_n(call.last_n)),
                 !.outcomes = Append(@, outcome)]

CurrentCall == td_calls[Len(td_calls)]

Step1LoadBaselineStats ==
    /\ s1_pc = "idle"
    /\ s1_pc' = "season"
    /\ td_calls' = <<NewCall(0)>>
    /\ UNCHANGED <<s1_season, s1_last5, s1_baseline, s1_error,
                   sm_answers, sm_team_data, sm_adjusted>>
    /\ UNCHANGED <<injVars, plVars, mgVars, adjVars, logVars, paVars, smVars, lgVars, evVars, pjVars, s3Vars, arVars, rsVars, s8Vars, epVars>>

\* resp.raise_for_status() passes and resp.json() is returned; the caller
\* goes on to the next request or to the blend.
DashboardAttemptReturns ==
    /\ s1_pc \in {"season", "last5"}
    /\ \E data \in Dashboards :
          LET done == [Attempted(CurrentCall, "ok") EXCEPT !.status = "returned"]
              calls == [td_calls EXCEPT ![Len(td_calls)] = done]
          IN  IF s1_pc = "season"
              THEN /\ s1_season' = <<data>>
                   /\ td_calls' = Append(calls, NewCall(5))
                   /\ s1_pc' = "last5"
                   /\ UNCHANGED <<s1_last5, s1_baseline, s1_error>>
              ELSE LET result == step_1_blend(T_BOS, s1_season[1], data)
                   IN  /\ s1_last5' = <<data>>
                       /\ td_calls' = calls
                       /\ s1_baseline' = result.baseline
                       /\ s1_error' = result.error
                       /\ s1_pc' = IF result.error = "none" THEN "returned" ELSE "raised"
                       /\ UNCHANGED s1_season
    /\ UNCHANGED <<sm_answers, sm_team_data, sm_adjusted>>
    /\ UNCHANGED <<injVars, plVars, mgVars, adjVars, logVars, paVars, smVars, lgVars, evVars, pjVars, s3Vars, arVars, rsVars, s8Vars, epVars>>

\* A variant that retries after every timeout.
DashboardAttemptTimesOutForever ==
    /\ s1_pc \in {"season", "last5"}
    /\ Len(CurrentCall.outcomes) < DashboardAttempts + 1
    /\ td_calls' = [td_calls EXCEPT ![Len(td_calls)] =
                        [Attempted(CurrentCall, "timeout") EXCEPT !.sleeps = @ + 1]]
    /\ UNCHANGED <<s1_pc, s1_error>>
    /\ UNCHANGED <<s1_season, s1_last5, s1_baseline, sm_answers, sm_team_data, sm_adjusted>>
    /\ UNCHANGED <<injVars, plVars, mgVars, adjVars, logVars, paVars, smVars, lgVars, evVars,
                   pjVars, s3Vars, arVars, rsVars, s8Vars, epVars>>

\* requests.exceptions.Timeout: sleep, then the next attempt, or
\* RuntimeError when the loop is over.
DashboardAttemptTimesOut ==
    /\ s1_pc \in {"season", "last5"}
    /\ LET tried == [Attempted(CurrentCall, "timeout") EXCEPT !.sleeps = @ + 1]
           over == Len(tried.outcomes) >= DashboardAttempts
           call == IF over THEN [tried EXCEPT !.status = "RuntimeError"] ELSE tried
       IN  /\ td_calls' = [td_calls EXCEPT ![Len(td_calls)] = call]
           /\ s1_pc' = IF over THEN "raised" ELSE s1_pc
           /\ s1_error' = IF over THEN "RuntimeError" ELSE s1_error
    /\ UNCHANGED <<s1_season, s1_last5, s1_baseline, sm_answers, sm_team_data, sm_adjusted>>
    /\ UNCHANGED <<injVars, plVars, mgVars, adjVars, logVars, paVars, smVars, lgVars, evVars, pjVars, s3Vars, arVars, rsVars, s8Vars, epVars>>

\* Any other exception of requests.get or raise_for_status leaves
\* get_team_dashboard and step 1.
DashboardAttemptFails ==
    /\ s1_pc \in {"season", "last5"}
    /\ \E err \in ProviderErrors :
          /\ td_calls' = [td_calls EXCEPT ![Len(td_calls)] =
                              [Attempted(CurrentCall, err) EXCEPT !.status = err]]
          /\ s1_error' = err
    /\ s1_pc' = "raised"
    /\ UNCHANGED <<s1_season, s1_last5, s1_baseline, sm_answers, sm_team_data, sm_adjusted>>
    /\ UNCHANGED <<injVars, plVars, mgVars, adjVars, logVars, paVars, smVars, lgVars, evVars, pjVars, s3Vars, arVars, rsVars, s8Vars, epVars>>

\* What the provider may answer to the 13 requests of pull_team_data: the
\* same response to all, or a complete response with one request failing.
AllAnswer(data) == [k \in 1..Len(PullRequests) |-> <<data>>]

PullAnswers ==
    {AllAnswer(data) : data \in Dashboards}
    \cup {[AllAnswer(Dashboard({}, {}, 1)) EXCEPT ![k] = <<>>] : k \in {2, 8, 13}}

\* pull_team_data followed by stage1_recency_weighting, as project_game
\* calls them for one team.
StatModelStage1 ==
    /\ s1_pc = "idle"
    /\ \E answers \in PullAnswers :
          LET team_data == pull_team_data(answers)
          IN  /\ sm_answers' = answers
              /\ sm_team_data' = <<team_data>>
              /\ sm_adjusted' = <<stage1_recency_weighting(team_data)>>
    /\ td_calls' = [k \in 1..Len(PullRequests) |->
                       [Attempted(NewCall(PullRequests[k]),
                                  IF sm_answers'[k] = <<>> THEN "HTTPError" ELSE "ok")
                            EXCEPT !.status = IF sm_answers'[k] = <<>> THEN "HTTPError"
                                              ELSE "returned"]]
    /\ s1_pc' = "sm_done"
    /\ UNCHANGED <<s1_season, s1_last5, s1_baseline, s1_error>>
    /\ UNCHANGED <<injVars, plVars, mgVars, adjVars, logVars, paVars, smVars, lgVars, evVars, pjVars, s3Vars, arVars, rsVars, s8Vars, epVars>>

(***************************************************************************)
(* master_projection_engine.py: step 7                                     *)
(*   ratings and paces are in hundredths, as steps 1 and 6 round them; the *)
(*   points before rounding are exact, in units of 1/4000000 of a point;   *)
(*   the fields of the projection are in tenths.                           *)
(***************************************************************************)
HOME_COURT_ADJ == 18

\* (rating sum / 2 / 100) * ((pace sum) / 2), ratings and paces in hundredths
PointUnit == 4000000

step_7_project_game(home_adjusted, away_adjusted) ==
    LET pace_sum == home_adjusted.pace_final + away_adjusted.pace_final
        home_points == (home_adjusted.off_rating_final + away_adjusted.def_rating_final)
                           * pace_sum
                       + HOME_COURT_ADJ * (PointUnit \div 10)
        away_points == (away_adjusted.off_rating_final + home_adjusted.def_rating_final)
                           * pace_sum
        total == RoundHalfEven(home_points + away_points, PointUnit \div 10)
        point_differential == Abs(home_points - away_points)
        home_favorite == home_points > away_points
    IN  [home_team |-> home_adjusted.team_name,
         away_team |-> away_adjusted.team_name,
         home_points |-> RoundHalfEven(home_points, PointUnit \div 10),
         away_points |-> RoundHalfEven(away_points, PointUnit \div 10),
         favorite_team |-> IF home_favorite THEN home_adjusted.team_name
                           ELSE away_adjusted.team_name,
         favorite_spread |-> -RoundHalfEven(point_differential, PointUnit \div 10),
         underdog_team |-> IF home_favorite THEN away_adjusted.team_name
                           ELSE home_adjusted.team_name,
         underdog_spread |-> RoundHalfEven(point_differential, PointUnit \div 10),
         total |-> total,
         \* round(avg_pace, 1) of a pace sum in hundredths
         possessions |-> RoundHalfEven(pace_sum, 20)]

OffRatings == {11200, 11540, 11777}

DefRatings == {11200, 11433}

PaceFinals == {9871, 10000}

Adjusted(team_name, off, def, pace) ==
    [team_name |-> team_name, off_rating_final |-> off, def_rating_final |-> def,
     pace_final |-> pace]

Step7ProjectGame ==
    /\ ~pj_called
    /\ \E home_off \in OffRatings, home_def \in DefRatings, home_pace \in PaceFinals,
          away_off \in OffRatings, away_def \in DefRatings, away_pace \in PaceFinals :
          LET home_adjusted == Adjusted(N_MIL, home_off, home_def, home_pace)
              away_adjusted == Adjusted(N_BOS, away_off, away_def, away_pace)
          IN  /\ pj_input' = [home_adjusted |-> home_adjusted,
                              away_adjusted |-> away_adjusted]
              /\ pj_result' = step_7_project_game(home_adjusted, away_adjusted)
    /\ pj_called' = TRUE
    /\ UNCHANGED <<injVars, plVars, mgVars, adjVars, logVars, paVars, smVars, lgVars, evVars,
                   bsVars, s3Vars, arVars, rsVars, s8Vars, epVars>>

(***************************************************************************)
(* master_projection_engine.py: step 3, the roster loop, and the steps a   *)
(*   team's pipeline runs on what it returned.  What the provider answers  *)
(*   for a player is the environment's choice; the report process_player   *)
(*   builds is kept as the fields step 3 itself passes in.                 *)
(***************************************************************************)
MaxRoster == 3

TeamRoster ==
    <<[PLAYER_ID |-> 1, PLAYER |-> "p1", POSITION |-> "G"],
      [PLAYER_ID |-> 2, PLAYER |-> "p2", POSITION |-> "C"],
      [PLAYER_ID |-> 3, PLAYER |-> "p3", POSITION |-> "F"],
      [PLAYER_ID |-> 4, PLAYER |-> "p4", POSITION |-> "G"],
      [PLAYER_ID |-> 5, PLAYER |-> "p5", POSITION |-> "F"]>>

Rosters == {SubSeq(TeamRoster, 1, n) : n \in 0..MaxRoster}

\* What happens inside the inner try for one roster row: the career stats
\* request raises, the player has no row for the season, the computation or
\* process_player raises, or the report is appended.
PlayerOutcomes == {"fetch_raises", "no_season_rows", "process_raises", "processed"}

Raises(outcome) == outcome \in {"fetch_raises", "process_raises"}

PlayerImpact(player_row) ==
    [player_name |-> player_row.PLAYER,
     position |-> player_row.POSITION,
     is_rim_protector |-> player_row.POSITION = "C",
     is_poa_defender |-> player_row.POSITION = "G"]

\* What the loop does before the inner try for the row with index idx: the
\* sleep of every row but the first, then the career stats request.
PacedPlayerRequest(idx) ==
    (IF idx > 0 THEN <<"sleep">> ELSE <<>>) \o <<"player_request">>

\* step_3_get_player_impacts up to the loop: the roster request answers, or
\* raises into the outer handler, which returns the empty list.
Step3FetchRoster ==
    /\ s3_pc = "idle"
    /\ \/ \E roster \in Rosters :
             /\ s3_roster' = roster
             /\ s3_pc' = "loop"
       \/ /\ s3_roster' = <<>>
          /\ s3_pc' = "returned"
    /\ s3_idx' = 0
    /\ s3_outcomes' = <<>>
    /\ s3_player_impacts' = <<>>
    /\ s3_step' = IF s3_pc' = "returned" THEN 3 ELSE 2
    /\ s3_events' = <<"roster_request">>
    /\ UNCHANGED s3_team_impacts
    /\ UNCHANGED <<injVars, plVars, mgVars, adjVars, logVars, paVars, smVars, lgVars, evVars,
                   bsVars, pjVars, arVars, rsVars, s8Vars, epVars>>

\* A loop in which a player's exception reaches the outer handler.
Step3ProcessPlayerNoInnerTry ==
    /\ s3_pc = "loop"
    /\ s3_idx < Len(s3_roster)
    /\ \E outcome \in PlayerOutcomes :
          /\ s3_outcomes' = Append(s3_outcomes, outcome)
          /\ s3_player_impacts' =
                IF Raises(outcome) THEN <<>>
                ELSE IF outcome = "processed"
                     THEN Append(s3_player_impacts, PlayerImpact(s3_roster[s3_idx + 1]))
                     ELSE s3_player_impacts
          /\ s3_pc' = IF Raises(outcome) THEN "returned" ELSE s3_pc
          /\ s3_step' = IF Raises(outcome) THEN 3 ELSE s3_step
    /\ s3_idx' = s3_idx + 1
    /\ s3_events' = s3_events \o PacedPlayerRequest(s3_idx)
    /\ UNCHANGED <<s3_roster, s3_team_impacts>>
    /\ UNCHANGED <<injVars, plVars, mgVars, adjVars, logVars, paVars, smVars, lgVars, evVars,
                   bsVars, pjVars, arVars, rsVars, s8Vars, epVars>>

\* One iteration of the roster loop: an exception inside the inner try is
\* printed and the loop goes on; so does a player without season rows.
Step3ProcessPlayer ==
    /\ s3_pc = "loop"
    /\ s3_idx < Len(s3_roster)
    /\ \E outcome \in PlayerOutcomes :
          /\ s3_outcomes' = Append(s3_outcomes, outcome)
          /\ s3_player_impacts' =
                IF outcome = "processed"
                THEN Append(s3_player_impacts, PlayerImpact(s3_roster[s3_idx + 1]))
                ELSE s3_player_impacts
    /\ s3_idx' = s3_idx + 1
    /\ s3_events' = s3_events \o PacedPlayerRequest(s3_idx)
    /\ UNCHANGED <<s3_pc, s3_roster, s3_step, s3_team_impacts>>
    /\ UNCHANGED <<injVars, plVars, mgVars, adjVars, logVars, paVars, smVars, lgVars, evVars,
                   bsVars, pjVars, arVars, rsVars, s8Vars, epVars>>

\* The loop is over: step 3 returns player_impacts.
Step3Return ==
    /\ s3_pc = "loop"
    /\ s3_idx = Len(s3_roster)
    /\ s3_pc' = "returned"
    /\ s3_step' = 3
    /\ UNCHANGED <<s3_roster, s3_idx, s3_outcomes, s3_player_impacts, s3_team_impacts,
                   s3_events>>
    /\ UNCHANGED <<injVars, plVars, mgVars, adjVars, logVars, paVars, smVars, lgVars, evVars,
                   bsVars, pjVars, arVars, rsVars, s8Vars, epVars>>

\* step_4_apply_vegas_modules returns the list it was given.
Step4ApplyVegasModules ==
    /\ s3_pc = "returned"
    /\ s3_step = 3
    /\ s3_team_impacts' = s3_player_impacts
    /\ s3_step' = 4
    /\ UNCHANGED <<s3_pc, s3_roster, s3_idx, s3_outcomes, s3_player_impacts, s3_events>>
    /\ UNCHANGED <<injVars, plVars, mgVars, adjVars, logVars, paVars, smVars, lgVars, evVars,
                   bsVars, pjVars, arVars, rsVars, s8Vars, epVars>>

\* run_full_pipeline goes on to steps 5 and 6 with the list of step 4.
Step5And6OfTeam ==
    /\ s3_pc = "returned"
    /\ s3_step \in {4, 5}
    /\ s3_step' = s3_step + 1
    /\ UNCHANGED <<s3_pc, s3_roster, s3_idx, s3_outcomes, s3_player_impacts, s3_team_impacts,
                   s3_events>>
    /\ UNCHANGED <<injVars, plVars, mgVars, adjVars, logVars, paVars, smVars, lgVars, evVars,
                   bsVars, pjVars, arVars, rsVars, s8Vars, epVars>>

(***************************************************************************)
(* save_predictions_helper.py and save_predictions_for_tracking: the       *)
(*   archive of the days' predictions, one file per date, over several     *)
(*   runs of the engine.  A projection is kept as its matchup.             *)
(***************************************************************************)
MaxArchiveRuns == 3

MaxDay == 2

ArchiveDays == 1..MaxDay

\* The slate of a day, as (away_team, home_team).
DaySlate == << <<N_BOS, N_MIL>>, <<N_LAL, N_MIA>>, <<N_MIA, N_BOS>> >>

\* The projections a run of project_all_games is left with: the matchups
\* whose pipeline did not raise, in slate order, at least one.
SurvivingProjections ==
    { SelectSeq(DaySlate, LAMBDA m : m \in kept) : kept \in (SUBSET {DaySlate[i] : i \in 1..Len(DaySlate)}) \ {{}} }

game_dict(result) == [home_team |-> result[2], away_team |-> result[1]]

\* The file of the date is opened for writing and the record dumped into
\* it, whatever the file held.
save_predictions(files, date, games, now) ==
    [files EXCEPT ![date] = <<[date |-> date, timestamp |-> now, games |-> games]>>]

save_predictions_for_tracking(files, today, all_projections, now) ==
    LET games_to_save == [i \in 1..Len(all_projections) |-> game_dict(all_projections[i])]
    IN  save_predictions(files, today, games_to_save, now)

\* The final step of one run of project_all_games on the current day.
SaveTodaysPredictions ==
    /\ ar_runs < MaxArchiveRuns
    /\ \E all_projections \in SurvivingProjections :
          ar_files' = save_predictions_for_tracking(ar_files, ar_today, all_projections,
                                                    ar_runs + 1)
    /\ ar_runs' = ar_runs + 1
    /\ UNCHANGED ar_today
    /\ UNCHANGED <<injVars, plVars, mgVars, adjVars, logVars, paVars, smVars, lgVars, evVars,
                   bsVars, pjVars, s3Vars, rsVars, s8Vars, epVars>>

\* Midnight.
DayPasses ==
    /\ ar_today < MaxDay
    /\ ar_today' = ar_today + 1
    /\ UNCHANGED <<ar_files, ar_runs>>
    /\ UNCHANGED <<injVars, plVars, mgVars, adjVars, logVars, paVars, smVars, lgVars, evVars,
                   bsVars, pjVars, s3Vars, rsVars, s8Vars, epVars>>

(***************************************************************************)
(* player_stats_processor.py: fetch_team_roster_stats and the              *)
(*   fetch_player_stats call of each of its rows.                          *)
(***************************************************************************)
MaxTeamPlayers == 2

\* The rows of the league table that carry the team's abbreviation.
TeamPlayerRows == {SubSeq(TeamRoster, 1, n) : n \in 0..MaxTeamPlayers}

\* How fetch_player_stats ends for one player: the player is unknown, the
\* season dashboard request raises or has no rows, the last-10 dashboard
\* request raises, or the stats are returned.
FetchPlayerOutcomes ==
    {"not_found", "season_raises", "season_empty", "last10_raises", "fetched"}

\* The requests fetch_player_stats sends before it ends that way.
fetch_player_stats_requests(outcome) ==
    IF outcome = "not_found" THEN <<>>
    ELSE IF outcome \in {"season_raises", "season_empty"} THEN <<"player_request">>
    ELSE <<"player_request", "player_request">>

\* The league request answers with the rows of the team, or raises, and then
\* the empty list is returned.
FetchTeamRosterStats ==
    /\ rs_pc = "idle"
    /\ \/ \E team_players \in TeamPlayerRows :
             /\ rs_team_players' = team_players
             /\ rs_pc' = "loop"
       \/ /\ rs_team_players' = <<>>
          /\ rs_pc' = "returned"
    /\ rs_idx' = 0
    /\ rs_roster_stats' = <<>>
    /\ rs_events' = <<"league_request">>
    /\ UNCHANGED <<injVars, plVars, mgVars, adjVars, logVars, paVars, smVars, lgVars, evVars,
                   bsVars, pjVars, s3Vars, arVars, s8Vars, epVars>>

\* One iteration: fetch_player_stats(player_name), appended if not None.
FetchPlayerStats ==
    /\ rs_pc = "loop"
    /\ rs_idx < Len(rs_team_players)
    /\ \E outcome \in FetchPlayerOutcomes :
          /\ rs_events' = rs_events \o fetch_player_stats_requests(outcome)
          /\ rs_roster_stats' =
                IF outcome = "fetched"
                THEN Append(rs_roster_stats, rs_team_players[rs_idx + 1].PLAYER)
                ELSE rs_roster_stats
    /\ rs_idx' = rs_idx + 1
    /\ UNCHANGED <<rs_pc, rs_team_players>>
    /\ UNCHANGED <<injVars, plVars, mgVars, adjVars, logVars, paVars, smVars, lgVars, evVars,
                   bsVars, pjVars, s3Vars, arVars, s8Vars, epVars>>

ReturnRosterStats ==
    /\ rs_pc = "loop"
    /\ rs_idx = Len(rs_team_players)
    /\ rs_pc' = "returned"
    /\ UNCHANGED <<rs_team_players, rs_idx, rs_roster_stats, rs_events>>
    /\ UNCHANGED <<injVars, plVars, mgVars, adjVars, logVars, paVars, smVars, lgVars, evVars,
                   bsVars, pjVars, s3Vars, arVars, s8Vars, epVars>>

(***************************************************************************)
(* master_projection_engine.py: step 8                                     *)
(*   the projection is in tenths, as step 7 returns it; the spreads and    *)
(*   adjustments of the result are in hundredths, as in the rest module.   *)
(***************************************************************************)
step_8_apply_rest_adjustment(projection, home_answer, away_answer, game_date, rest_adjustment) ==
    IF ~rest_adjustment
    THEN [rest_adjustment_enabled |-> FALSE,
          rest_days_home |-> <<>>,
          rest_days_away |-> <<>>,
          rest_adj_home |-> 0,
          rest_adj_away |-> 0,
          baseline_spread |-> 10 * projection.favorite_spread,
          rest_module_spread |-> 10 * projection.favorite_spread]
    ELSE
        LET baseline_spread == 10 * (projection.away_points - projection.home_points)
            result == apply_rest_adjustment(baseline_spread,
                                            fetch_last_game_nba_api(home_answer),
                                            fetch_last_game_nba_api(away_answer),
                                            game_date, rest_adjustment)
        IN  [f \in DOMAIN result \ {"fetches"} |-> result[f]]

\* The game logs step 8 is run against: no answer, a game the day before, a
\* home game four days before.
Step8Answers ==
    {[kind |-> "raises", rows |-> <<>>],
     [kind |-> "rows", rows |-> <<[GAME_DATE |-> Today - 1, MATCHUP |-> <<"BOS", "@", "MIL">>]>>],
     [kind |-> "rows", rows |-> <<[GAME_DATE |-> Today - 4, MATCHUP |-> <<"BOS", "vs.", "MIL">>]>>]}

Step8ApplyRestAdjustment ==
    /\ ~s8_called
    /\ \E home_off \in OffRatings, home_def \in DefRatings,
          away_off \in OffRatings, away_def \in DefRatings, pace \in PaceFinals,
          home_answer \in Step8Answers, away_answer \in Step8Answers,
          rest_adjustment \in BOOLEAN :
          LET projection == step_7_project_game(Adjusted(N_MIL, home_off, home_def, pace),
                                                Adjusted(N_BOS, away_off, away_def, pace))
              game_date == Today * HoursPerDay + 19
          IN  /\ s8_input' = [projection |-> projection, home_answer |-> home_answer,
                              away_answer |-> away_answer, game_date |-> game_date,
                              rest_adjustment |-> rest_adjustment]
              /\ s8_result' = step_8_apply_rest_adjustment(projection, home_answer,
                                                           away_answer, game_date,
                                                           rest_adjustment)
    /\ s8_called' = TRUE
    /\ UNCHANGED <<injVars, plVars, mgVars, adjVars, logVars, paVars, smVars, lgVars, evVars,
                   bsVars, pjVars, s3Vars, arVars, rsVars, epVars>>

(***************************************************************************)
(* master_projection_engine.py: step 3, the estimate made from a player's  *)
(*   season row and handed to process_player.  FG_PCT is in thousandths,   *)
(*   rates, ratings and estimated impacts in tenths.  The rows drawn make  *)
(*   every quotient exact.                                                 *)
(***************************************************************************)
ENGINE_LEAGUE_AVG_OFF_RATING == 1140

ENGINE_LEAGUE_AVG_DEF_RATING == 1140

\* The locals of the inner try: the estimated impacts and the dict built
\* from them.
step_3_estimate(stats) ==
    LET games_played == stats.GP
        total_minutes == stats.MIN
        usage_rate == IF total_minutes > 0
                      THEN ((100 * stats.FGA + 44 * stats.FTA + 100 * stats.TOV) * 480)
                               \div (100 * total_minutes)
                      ELSE 0
        ppg_or_zero == IF games_played > 0 THEN (10 * stats.PTS) \div games_played ELSE 0
        net_rating == (ppg_or_zero - 150) \div 3
        ppg == IF games_played > 0 THEN (10 * stats.PTS) \div games_played ELSE 150
        scoring_efficiency == (stats.FG_PCT - 450) \div 10
        volume_bonus == Min2((ppg - 150) \div 5, 30)
        off_impact == scoring_efficiency + volume_bonus
        def_impact == (net_rating * 4) \div 10
        mpg == IF games_played > 0 THEN (10 * total_minutes) \div games_played ELSE 0
    IN  [off_impact |-> off_impact,
         def_impact |-> def_impact,
         player_stat_dict |->
             [minutes_played_season |-> total_minutes,
              minutes_per_game |-> mpg,
              games_played |-> games_played,
              usage_rate |-> usage_rate,
              usage_rate_last_10 |-> usage_rate,
              net_rating |-> net_rating,
              off_rating_oncourt |-> ENGINE_LEAGUE_AVG_OFF_RATING + off_impact,
              def_rating_oncourt |-> ENGINE_LEAGUE_AVG_DEF_RATING + def_impact]]

\* The keyword arguments step 3 passes to process_player.
step_3_keywords(position) ==
    [position |-> position, overlap_given |-> TRUE, starter_overlap_pct |-> 100,
     is_rim_protector |-> position = "C", is_poa_defender |-> position = "G"]

\* Season rows: 60 games at 26 or 32 minutes, a usage of 20.0, 22.0 or 30.0,
\* 7.5 to 30 points per game, and a player without a game.
SeasonRows ==
    { [GP |-> 60, MIN |-> minutes, FGA |-> (usage * minutes) \div 480 - 144, FTA |-> 100,
       TOV |-> 100, PTS |-> 6 * ppg, FG_PCT |-> fg_pct] :
        minutes \in {1560, 1920}, usage \in {200, 220, 300},
        ppg \in {75, 150, 195, 225, 300}, fg_pct \in {300, 450, 500} }
    \cup { [GP |-> 0, MIN |-> 0, FGA |-> 0, FTA |-> 0, TOV |-> 0, PTS |-> 0, FG_PCT |-> 450] }

EstimateAndProcessPlayer ==
    /\ ~ep_called
    /\ \E stats \in SeasonRows, position \in {"G", "F", "C"} :
          LET estimate == step_3_estimate(stats)
          IN  /\ ep_input' = [stats |-> stats, position |-> position]
              /\ ep_estimate' = [off_impact |-> estimate.off_impact,
                                 def_impact |-> estimate.def_impact]
              /\ ep_result' = process_player(estimate.player_stat_dict,
                                             step_3_keywords(position))
    /\ ep_called' = TRUE
    /\ UNCHANGED <<injVars, plVars, mgVars, adjVars, logVars, paVars, smVars, lgVars, evVars,
                   bsVars, pjVars, s3Vars, arVars, rsVars, s8Vars>>

(***************************************************************************)
(* Specifications                                                          *)
(***************************************************************************)
Init ==
    /\ inj_called = FALSE
    /\ inj_input = <<>>
    /\ inj_result = NoStatusResult
    /\ pl_called = FALSE
    /\ pl_input = NoPlayerInput
    /\ pl_result = NoPlayerResult
    /\ mg_called = FALSE
    /\ mg_input = NoMergeInput
    /\ mg_report = <<>>
    /\ mg_result = NoMergeResult
    /\ adj_called = "none"
    /\ rest_input = NoRestInput
    /\ rest_result = NoRestResult
    /\ rest_fetches = 0
    /\ pace_input = NoPaceInput
    /\ pace_result = NoPaceResult
    /\ log_exists = FALSE
    /\ log_header = <<>>
    /\ log_rows = <<>>
    /\ log_runs = 0
    /\ log_last = NoLastRun
    /\ pa_pc = "idle"
    /\ pa_tracking = FALSE
    /\ pa_matchups = <<>>
    /\ pa_idx = 0
    /\ pa_all_projections = <<>>
    /\ pa_failed = {}
    /\ pa_summary = <<>>
    /\ pa_saved = <<>>
    /\ pipe_status = "idle"
    /\ pipe_pc = 0
    /\ pipe_trace = <<>>
    /\ sm_pc = "idle"
    /\ sm_schedule = <<>>
    /\ sm_idx = 0
    /\ sm_projections = <<>>
    /\ lg_constructed = FALSE
    /\ lg_calls = 0
    /\ lg_last_row = ExampleRow
    /\ lg_last_outcome = "none"
    /\ ev_op = "none"
    /\ ev_input = <<>>
    /\ ev_result = <<>>
    /\ s1_pc = "idle"
    /\ td_calls = <<>>
    /\ s1_season = <<>>
    /\ s1_last5 = <<>>
    /\ s1_baseline = <<>>
    /\ s1_error = "none"
    /\ sm_answers = <<>>
    /\ sm_team_data = <<>>
    /\ sm_adjusted = <<>>
    /\ pj_called = FALSE
    /\ pj_input = <<>>
    /\ pj_result = <<>>
    /\ s3_pc = "idle"
    /\ s3_roster = <<>>
    /\ s3_idx = 0
    /\ s3_outcomes = <<>>
    /\ s3_player_impacts = <<>>
    /\ s3_step = 2
    /\ s3_team_impacts = <<>>
    /\ s3_events = <<>>
    /\ ar_files = [d \in ArchiveDays |-> <<>>]
    /\ ar_today = 1
    /\ ar_runs = 0
    /\ rs_pc = "idle"
    /\ rs_team_players = <<>>
    /\ rs_idx = 0
    /\ rs_roster_stats = <<>>
    /\ rs_events = <<>>
    /\ s8_called = FALSE
    /\ s8_input = <<>>
    /\ s8_result = <<>>
    /\ ep_called = FALSE
    /\ ep_input = <<>>
    /\ ep_estimate = <<>>
    /\ ep_result = <<>>

NextInjury == ProcessInjuryStatus

SpecInjury == Init /\ [][NextInjury]_vars

NextPlayer == ProcessPlayer

SpecPlayer == Init /\ [][NextPlayer]_vars

NextMerge == MergeInjuriesAndImpacts

SpecMerge == Init /\ [][NextMerge]_vars

NextAdjust == ApplyRestAdjustment \/ ApplyPaceAdjustment

SpecAdjust == Init /\ [][NextAdjust]_vars

NextLog == UpdatePerformanceLog

SpecLog == Init /\ [][NextLog]_vars

NextPipeline ==
    \/ StartProjectAllGames
    \/ EvaluateYesterdaysPredictions
    \/ GetTodaysGames
    \/ BeginMatchup
    \/ RunPipelineStep
    \/ RaiseInPipelineStep
    \/ ReturnPipelineResult
    \/ PrintSummary
    \/ SavePredictionsForTracking

SpecPipeline == Init /\ [][NextPipeline]_vars

NextStatModel == SM_GetTodaysSchedule \/ SM_ProjectGame \/ SM_ReturnProjections

SpecStatModel == Init /\ [][NextStatModel]_vars

NextLogger == ConstructLogger \/ LogPerformance

SpecLogger == Init /\ [][NextLogger]_vars

NextEvaluate == EvaluateGame \/ ClassifyPickType

SpecEvaluate == Init /\ [][NextEvaluate]_vars

NextBaseline ==
    \/ Step1LoadBaselineStats
    \/ DashboardAttemptReturns
    \/ DashboardAttemptTimesOut
    \/ DashboardAttemptFails
    \/ StatModelStage1

SpecBaseline == Init /\ [][NextBaseline]_vars

NextProject == Step7ProjectGame

SpecProject == Init /\ [][NextProject]_vars

NextRoster ==
    \/ Step3FetchRoster
    \/ Step3ProcessPlayer
    \/ Step3Return
    \/ Step4ApplyVegasModules
    \/ Step5And6OfTeam

SpecRoster == Init /\ [][NextRoster]_vars

\* run_full_pipeline runs its statements one after the other, so a step that
\* can be taken is taken.
SpecRosterLive == SpecRoster /\ WF_vars(NextRoster)

NextArchive ==
    \/ SaveTodaysPredictions
    \/ DayPasses

SpecArchive == Init /\ [][NextArchive]_vars

NextRosterStats ==
    \/ FetchTeamRosterStats
    \/ FetchPlayerStats
    \/ ReturnRosterStats

\* The two roster loops of the program.
NextRosterLoops == NextRoster \/ NextRosterStats

SpecRosterLoops == Init /\ [][NextRosterLoops]_vars

NextRest == Step8ApplyRestAdjustment

SpecRest == Init /\ [][NextRest]_vars

NextEstimate == EstimateAndProcessPlayer

SpecEstimate == Init /\ [][NextEstimate]_vars

(***************************************************************************)
(* Properties                                                              *)
(***************************************************************************)
\* Case-insensitive substring and equality tests, character by character.
ContainsCI(s, pat) ==
    \E idx \in 1..(Len(s) - Len(pat) + 1) :
        \A k \in 1..Len(pat) : UpperChar(s[idx + k - 1]) = pat[k]

EqualsCI(s, pat) ==
    /\ Len(s) = Len(pat)
    /\ \A k \in 1..Len(pat) : UpperChar(s[k]) = pat[k]

\* C1: process_injury_status returns the table row of the normalised status.
\* A raw string containing OUT in any letter case, or equal to DOUBTFUL, gives
\* unavailable / apply_impact; otherwise QUESTIONABLE or a string containing
\* DAY-TO-DAY or DAY TO DAY gives available / no impact; every other string,
\* PROBABLE, ACTIVE and the unrecognised ones, gives available / apply_impact.
C1_StatusTable ==
    inj_called =>
        LET hasOut == ContainsCI(inj_input, S_OUT)
            hasDtd == \/ ContainsCI(inj_input, S_DAY_TO_DAY_HYPHEN)
                      \/ ContainsCI(inj_input, S_DAY_TO_DAY_SPACE)
        IN  inj_result =
                IF hasOut \/ EqualsCI(inj_input, S_DOUBTFUL)
                THEN [model_status |-> "unavailable", apply_impact |-> TRUE]
                ELSE IF EqualsCI(inj_input, S_QUESTIONABLE) \/ hasDtd
                THEN [model_status |-> "available", apply_impact |-> FALSE]
                ELSE [model_status |-> "available", apply_impact |-> TRUE]

\* A mixed-case day-to-day string has been resolved to available / no impact.
C1_Witness ==
    /\ inj_called
    /\ inj_input = <<"D", "a", "y", "-", "T", "o", "-", "D", "a", "y">>
    /\ inj_result = [model_status |-> "available", apply_impact |-> FALSE]

\* C2: a player with fewer than 300 season minutes is ineligible and Tier 4,
\* whatever the other statistics are.
C2_LowMinutesTier4 ==
    (pl_called /\ pl_input.ps.minutes_played_season < 300) =>
        (~pl_result.eligible /\ pl_result.tier = "Tier 4")

\* A player below 300 minutes whose other statistics meet every Tier 1
\* threshold has been processed.
C2_Witness ==
    /\ pl_called
    /\ pl_input.ps.minutes_played_season < 300
    /\ pl_input.ps.usage_rate >= 280
    /\ Abs(pl_input.ps.net_rating) >= 20
    /\ MpgAtLeast(pl_input.ps.minutes_played_season, pl_input.ps.games_played, 30)
    /\ pl_input.ps.usage_rate_last_10 = pl_input.ps.usage_rate
    /\ pl_result.tier = "Tier 4"

\* The cap of a tier, in tenths.
TierCap(tier) == IF tier = "Tier 1" THEN TIER_1_CAP ELSE TIER_2_CAP

\* C4: for an eligible player the impacts calculate_impact returns are within
\* the tier cap (6.0 for Tier 1, 3.0 for Tier 2); the cap is applied before
\* the Vegas weights, so the final off_impact is still within the cap, the
\* final def_impact is within 1.4 times the cap, and it exceeds the cap only
\* when the defensive-role weight is above 1.
C4_TierCap ==
    (pl_called /\ pl_result.eligible) =>
        LET cap == TierCap(pl_result.tier)
        IN  /\ Abs(pl_result.calc[1]) <= 10 * cap
            /\ Abs(pl_result.calc[2]) <= 10 * cap
            /\ Abs(pl_result.off_impact) <= cap
            /\ 10 * Abs(pl_result.def_impact) <= 14 * cap
            /\ (Abs(pl_result.def_impact) > cap =>
                    pl_result.vegas_adjustments.def_role_weight > 10)

\* A Tier 1 rim protector whose raw impacts both exceed the cap: the offence
\* is held at -6.0 and the defence is amplified to 8.4 after the cap.
C4_Witness ==
    /\ pl_called
    /\ pl_result.eligible
    /\ pl_result.tier = "Tier 1"
    /\ pl_input.ps.off_rating_oncourt = 1000
    /\ pl_result.off_impact = -60
    /\ pl_result.def_impact = 84

\* The scenario's season line: usage 30, net rating +3, 60 games, last-10
\* usage within 5.0 of the season usage.
ScenarioPlayer(ps) ==
    /\ ps.usage_rate = 300
    /\ ps.net_rating = 30
    /\ ps.games_played = 60
    /\ Abs(ps.usage_rate_last_10 - ps.usage_rate) <= 50

\* The 70/30-regressed impact of a rating, capped at the Tier 1 cap
\* (hundredths).
RegressedCapped(rating, league_avg) ==
    LET raw == 7 * (rating - league_avg)
    IN  IF raw > 600 THEN 600 ELSE IF raw < -600 THEN -600 ELSE raw

\* C7 as stated: the scenario player with 1200 season minutes and a
\* minutes_per_game of 32 is Tier 1 and eligible, with 70/30-regressed impacts
\* capped at 6.0.
C7_ScenarioAsStated ==
    (/\ pl_called
     /\ ScenarioPlayer(pl_input.ps)
     /\ pl_input.ps.minutes_played_season = 1200
     /\ pl_input.ps.minutes_per_game = 320) =>
        /\ pl_result.tier = "Tier 1"
        /\ pl_result.eligible
        /\ pl_result.calc[1] = RegressedCapped(pl_input.ps.off_rating_oncourt, 1150)
        /\ pl_result.calc[2] = RegressedCapped(pl_input.ps.def_rating_oncourt, 1150)

\* C7 amended: the scenario player is Tier 1 and eligible, with 70/30-regressed
\* impacts capped at 6.0, when its season minutes are 1920, that is 32 per
\* game over 60 games; with 1200 season minutes the tier rule derives 20
\* minutes per game, whatever minutes_per_game says, and the player is Tier 3
\* and ineligible with zero impacts.
C7_ScenarioAmended ==
    (pl_called /\ ScenarioPlayer(pl_input.ps)) =>
        /\ pl_input.ps.minutes_played_season = 1920 =>
              /\ pl_result.tier = "Tier 1"
              /\ pl_result.eligible
              /\ pl_result.calc[1] = RegressedCapped(pl_input.ps.off_rating_oncourt, 1150)
              /\ pl_result.calc[2] = RegressedCapped(pl_input.ps.def_rating_oncourt, 1150)
        /\ pl_input.ps.minutes_played_season = 1200 =>
              /\ pl_result.tier = "Tier 3"
              /\ ~pl_result.eligible
              /\ pl_result.off_impact = 0
              /\ pl_result.def_impact = 0

\* The scenario player with 1920 minutes has been processed; its offensive
\* impact is below the cap and its defensive impact is held at the cap.
C7_Witness ==
    /\ pl_called
    /\ ScenarioPlayer(pl_input.ps)
    /\ pl_input.ps.minutes_played_season = 1920
    /\ pl_input.ps.minutes_per_game = 320
    /\ pl_result.tier = "Tier 1"
    /\ pl_result.calc = <<-70, 600>>

\* The contribution the claim gives one report entry (tenths): the negated
\* stored impact when the entry is unavailable and the roster holds an
\* eligible impact object of that name, zero otherwise.
EntryContribution(entry, player_impacts, field) ==
    LET matches == {idx \in 1..Len(player_impacts) :
                        /\ player_impacts[idx].player_name = entry.player_name
                        /\ player_impacts[idx].eligible}
    IN  IF entry.model_status = "unavailable" /\ matches # {}
        THEN -(player_impacts[CHOOSE idx \in matches : TRUE][field])
        ELSE 0

RECURSIVE SumContributions(_, _, _, _)
SumContributions(report, player_impacts, field, idx) ==
    IF idx = 0 THEN 0
    ELSE EntryContribution(report[idx], player_impacts, field)
            + SumContributions(report, player_impacts, field, idx - 1)

\* C3: with injury adjustment enabled, step 5 returns as off_adjustment and
\* def_adjustment the sum, over the report entries that are unavailable and
\* whose player has an eligible impact object, of the negated stored
\* off_impact and def_impact; available entries (QUESTIONABLE included),
\* ineligible players and players missing from the impact list add nothing;
\* with injury adjustment disabled both adjustments are 0 and the breakdown is
\* empty.
C3_MergeSum ==
    mg_called =>
        IF mg_input.injury_adjustment
        THEN /\ mg_result.off_adjustment =
                    10 * SumContributions(mg_report, mg_input.player_impacts,
                                          "off_impact", Len(mg_report))
             /\ mg_result.def_adjustment =
                    10 * SumContributions(mg_report, mg_input.player_impacts,
                                          "def_impact", Len(mg_report))
             /\ Len(mg_report) = Len(mg_input.injuries)
             /\ \A idx \in 1..Len(mg_report) :
                    mg_report[idx].espn_status = S_QUESTIONABLE =>
                        mg_report[idx].model_status = "available"
        ELSE /\ mg_result.off_adjustment = 0
             /\ mg_result.def_adjustment = 0
             /\ mg_result.impact_breakdown = <<>>

\* One team with an eligible player OUT, an eligible player QUESTIONABLE and
\* nobody else: only the OUT player's impact is applied, negated.
C3_Witness ==
    /\ mg_called
    /\ mg_input.injury_adjustment
    /\ mg_input.injuries = <<[player_name |-> "p1", espn_status |-> S_OUT],
                             [player_name |-> "p2", espn_status |-> S_QUESTIONABLE]>>
    /\ mg_input.player_impacts =
          <<[player_name |-> "p1", eligible |-> TRUE, off_impact |-> 36, def_impact |-> -84],
            [player_name |-> "p2", eligible |-> TRUE, off_impact |-> -60, def_impact |-> 50]>>
    /\ mg_result.off_adjustment = -360
    /\ mg_result.def_adjustment = 840
    /\ Len(mg_result.impact_breakdown) = 1

\* C5: with its toggle disabled, apply_rest_adjustment returns the baseline
\* spread it was given as rest_module_spread, both rest adjustments 0, no
\* rest days, and makes no request to the provider; apply_pace_adjustment
\* returns the baseline total it was given as pace_module_total, with
\* pace_total_adj 0; each result carries its enabled flag as false.
C5_DisabledModulesReturnBaseline ==
    /\ (adj_called = "rest" /\ ~rest_input.rest_adjustment_enabled) =>
          /\ rest_result.rest_module_spread = rest_input.baseline_spread
          /\ rest_result.baseline_spread = rest_input.baseline_spread
          /\ rest_result.rest_adj_home = 0
          /\ rest_result.rest_adj_away = 0
          /\ rest_result.rest_adjustment_enabled = FALSE
          /\ rest_fetches = 0
    /\ (adj_called = "pace" /\ ~pace_input.pace_adjustment_enabled) =>
          /\ pace_result.pace_module_total = pace_input.baseline_total
          /\ pace_result.baseline_total = pace_input.baseline_total
          /\ pace_result.pace_total_adj = 0
          /\ pace_result.pace_adjustment_enabled = FALSE

\* The rest module called disabled on a spread of 3.33 for a home team on a
\* back-to-back: enabled, the same call would have changed and rounded it.
C5_Witness ==
    /\ adj_called = "rest"
    /\ ~rest_input.rest_adjustment_enabled
    /\ rest_input.baseline_spread = 333
    /\ rest_input.last_home = <<[last_game_day |-> Today, home_or_away |-> "away"]>>
    /\ rest_result.rest_module_spread = 333
    /\ rest_fetches = 0
    /\ apply_rest_adjustment(333, rest_input.last_home, rest_input.last_away,
                             rest_input.game_date, TRUE).rest_module_spread # 333

\* C6: whatever the runs of update_performance_log found in the scoreboard,
\* the prediction file and the odds, the performance log never holds two
\* rows with the same (date, game_id, pick_type).
C6_NoDuplicateLogRows ==
    \A i, j \in 1..Len(log_rows) :
        i # j => EntryKey(log_rows[i]) # EntryKey(log_rows[j])

\* A second run that met keys already in the log: it skipped them and the
\* log still holds the rows of the first run.
C6_Witness ==
    /\ log_runs = 2
    /\ log_last.outcome = "done"
    /\ log_last.total_skipped >= 2
    /\ log_last.total_logged = 0
    /\ Len(log_rows) = 2

\* The place the claim gives a step in the order: home 1..6, away 1..6, then
\* steps 7, 8, 9.
ClaimedPlace(entry) ==
    IF entry[1] = "home" THEN entry[2]
    ELSE IF entry[1] = "away" THEN 6 + entry[2]
    ELSE 6 + entry[2]

InTrace(entry) == \E i \in 1..Len(pipe_trace) : pipe_trace[i] = entry

\* C8: in run_full_pipeline the i-th step completed is the i-th of the order
\* home 1-6, away 1-6, 7, 8, 9, so no step is entered twice; step 7 is not
\* begun before step 6 is complete for both teams; and the result is
\* returned only when step 9, the fifteenth, is complete.
C8_FixedStepOrder ==
    /\ \A i \in 1..Len(pipe_trace) :
          /\ pipe_trace[i][1] \in {"home", "away", "game"}
          /\ pipe_trace[i][1] = "game" <=> pipe_trace[i][2] \in {7, 8, 9}
          /\ pipe_trace[i][1] # "game" <=> pipe_trace[i][2] \in 1..6
          /\ ClaimedPlace(pipe_trace[i]) = i
    /\ \A i, j \in 1..Len(pipe_trace) : i # j => pipe_trace[i] # pipe_trace[j]
    /\ (pipe_status = "running" /\ pipe_pc \in 1..Len(PipelineStatements)
            /\ PipelineStatements[pipe_pc] = <<"game", 7>>)
          => (InTrace(<<"home", 6>>) /\ InTrace(<<"away", 6>>))
    /\ pipe_status = "returned" =>
          (Len(pipe_trace) = 15 /\ pipe_trace[15] = <<"game", 9>>)

\* A pipeline that has returned its result for the second matchup of a
\* slate.
C8_Witness ==
    /\ pipe_status = "returned"
    /\ pa_idx = 2
    /\ Len(pipe_trace) = 15
    /\ InTrace(<<"game", 7>>)

Projected(idx) == \E k \in 1..Len(pa_all_projections) : pa_all_projections[k] = pa_matchups[idx]

\* C9: a matchup whose pipeline raised is never among the results; once the
\* loop of project_all_games is over, run_full_pipeline has been called for
\* every matchup of the slate, each one either failed or is among the
\* results; and a failed matchup is neither in what print_summary is given
\* nor in the games the run passes to save_predictions.
C9_FailureAbortsOnlyThatMatchup ==
    /\ \A idx \in pa_failed : ~Projected(idx)
    /\ pa_pc \in {"save", "returned"} =>
          \A idx \in 1..Len(pa_matchups) :
              /\ idx <= pa_idx
              /\ idx \in pa_failed \/ Projected(idx)
              /\ idx \in pa_failed =>
                    /\ \A k \in 1..Len(pa_summary) : pa_summary[k] # pa_matchups[idx]
                    /\ pa_saved # <<>> =>
                          \A k \in 1..Len(pa_saved[1]) : pa_saved[1][k] # pa_matchups[idx]
    /\ pa_pc = "returned" /\ pa_matchups # <<>> =>
          \A idx \in 1..Len(pa_matchups) :
              idx \notin pa_failed => \E k \in 1..Len(pa_summary) : pa_summary[k] = pa_matchups[idx]

\* The first matchup of a slate of two failed, the second was projected,
\* summarised and saved alone.
C9_Witness ==
    /\ pa_pc = "returned"
    /\ Len(pa_matchups) = 2
    /\ pa_failed = {1}
    /\ pa_summary = <<pa_matchups[2]>>
    /\ pa_saved = <<(<<pa_matchups[2]>>)>>

\* C10: when NBAStatisticalModel.project_all_games has ended, by returning
\* or by an exception, every game of the schedule whose own projection does
\* not raise has been projected.
C10_ExceptionAbortsOnlyThatGame ==
    sm_pc \in {"returned", "raised"} =>
        \A idx \in 1..Len(sm_schedule) :
            ~project_game_raises(sm_schedule[idx].home_team, sm_schedule[idx].away_team)
                => \E k \in 1..Len(sm_projections) : sm_projections[k] = sm_schedule[idx]

\* What makes a row_dict one the claim says is rejected: a required key is
\* missing, an enum value is outside its enum, the game id is not two
\* non-empty sides without lower-case letters around one "@", a number is
\* not a float, or result_correct is not a bool.
ClaimRejects(row_dict) ==
    \/ \E k \in 1..Len(REQUIRED_FIELDS) : REQUIRED_FIELDS[k] \notin row_dict.present
    \/ row_dict.pick_type \notin VALID_PICK_TYPES
    \/ row_dict.variance_flag \notin VALID_VARIANCE_FLAGS
    \/ row_dict.injury_flag \notin VALID_INJURY_FLAGS
    \/ LET g == row_dict.game_id
           ats == {i \in 1..Len(g) : g[i] = "@"}
       IN  \/ Cardinality(ats) # 1
           \/ \E i \in ats : i = 1 \/ i = Len(g)
           \/ \E i \in 1..Len(g) : IsLowerChar(g[i])
    \/ \E x \in {row_dict.edge_points, row_dict.model_line, row_dict.market_line} :
          x.kind # "float"
    \/ row_dict.result_correct.kind # "bool"

IsPrefix(a, b) == Len(a) <= Len(b) /\ SubSeq(b, 1, Len(a)) = a

\* C12: an existing file starts with exactly one header row, and the header
\* is written only by a step that finds no file; every step keeps the rows
\* already written, in place; a successful log_performance call adds
\* exactly one row, at the end, and no other step of the logger adds any.
C12_HeaderOnceAppendOnly ==
    /\ [](log_exists => log_header = <<CSV_HEADER>>)
    /\ [][ /\ log_header' # log_header => ~log_exists
           /\ log_exists => log_exists'
           /\ IsPrefix(log_rows, log_rows')
           /\ lg_calls' = lg_calls + 1 /\ lg_last_outcome' = "logged" =>
                 /\ Len(log_rows') = Len(log_rows) + 1
                 /\ log_rows'[Len(log_rows')].game_id = lg_last_row'.game_id
                 /\ log_rows'[Len(log_rows')].pick_type = lg_last_row'.pick_type
           /\ ~(lg_calls' = lg_calls + 1 /\ lg_last_outcome' = "logged") =>
                 log_rows' = log_rows ]_vars

\* Two rows logged one after the other under the one header.
C12_Witness ==
    /\ lg_calls = 2
    /\ lg_last_outcome = "logged"
    /\ Len(log_rows) = 2
    /\ log_rows[1].pick_type = "spread_big_edge"
    /\ log_rows[2].pick_type = "total_under_value"
    /\ log_header = <<CSV_HEADER>>

SpreadRows(rows) == {k \in 1..Len(rows) : rows[k].pick_type \in
    {"spread_dog_value", "spread_fav_small", "spread_big_edge", "flipped_favorite"}}

TotalRows(rows) == {k \in 1..Len(rows) : rows[k].pick_type \notin
    {"spread_dog_value", "spread_fav_small", "spread_big_edge", "flipped_favorite"}}

\* C13: evaluate_game returns a spread row only when the market spread and
\* the model spread are at least 1.0 apart and a total row only when the two
\* totals are at least 2.0 apart (and, the lines being known, it then
\* returns one); no row it returns is marked incorrect for an edge too small.
C13_RowsOnlyAboveThreshold ==
    ev_op = "evaluate" =>
        /\ \A k \in SpreadRows(ev_result) :
              /\ Abs(ev_input.market_spread - ev_input.model_spread) >= 10
              /\ ev_result[k].model_line = ev_input.model_spread
        /\ \A k \in TotalRows(ev_result) :
              /\ Abs(ev_input.model_total - ev_input.market_total) >= 20
              /\ ev_result[k].model_line = ev_input.model_total
        /\ Cardinality(SpreadRows(ev_result)) <= 1
        /\ Cardinality(TotalRows(ev_result)) <= 1
        /\ ev_input.lines_known =>
              /\ Abs(ev_input.market_spread - ev_input.model_spread) >= 10
                    => SpreadRows(ev_result) # {}
              /\ Abs(ev_input.model_total - ev_input.market_total) >= 20
                    => TotalRows(ev_result) # {}
        /\ ~ev_input.lines_known => ev_result = <<>>
        /\ \A k \in 1..Len(ev_result) : ev_result[k].notes # "Edge too small"

\* A spread edge of 0.9 next to a total edge of exactly 2.0: the total row
\* alone is returned.
C13_Witness ==
    /\ ev_op = "evaluate"
    /\ ev_input.lines_known
    /\ ev_input.market_spread - ev_input.model_spread = 9
    /\ ev_input.model_total - ev_input.market_total = 20
    /\ Len(ev_result) = 1
    /\ ev_result[1].pick_type = "total_over_value"

Timeouts(call) == {k \in 1..Len(call.outcomes) : call.outcomes[k] = "timeout"}

\* C15: every call of the engine's get_team_dashboard makes at most 3
\* attempts; every attempt but the last timed out and was followed by one
\* sleep; the call returned exactly when its last attempt succeeded, raised
\* RuntimeError exactly when 3 attempts had timed out, and raised the
\* failure itself when its last attempt failed otherwise.
C15_ThreeAttemptsRetryOnTimeout ==
    s1_pc \in {"season", "last5", "returned", "raised"} =>
        \A c \in 1..Len(td_calls) :
            LET call == td_calls[c]
                n == Len(call.outcomes)
            IN  /\ n <= 3
                /\ Len(call.sent) = n
                /\ \A k \in 1..(n - 1) : call.outcomes[k] = "timeout"
                /\ call.sleeps = Cardinality(Timeouts(call))
                /\ call.status = "running" => Timeouts(call) = 1..n /\ n < 3
                /\ call.status = "returned" <=> (n > 0 /\ call.outcomes[n] = "ok")
                /\ call.status = "RuntimeError" <=> (n = 3 /\ Timeouts(call) = 1..3)
                /\ \A err \in ProviderErrors :
                      call.status = err <=> (n > 0 /\ call.outcomes[n] = err)

\* Two timeouts and then a response: the third attempt is the last.
C15_Witness ==
    /\ s1_pc = "last5"
    /\ td_calls[1].outcomes = <<"timeout", "timeout", "ok">>
    /\ td_calls[1].status = "returned"

\* C16: once step_1_load_baseline_stats has both responses, the request
\* that gave the season table carried last_n_games = 0 and the one that
\* gave the last5 table carried last_n_games = 5.
C16_SeasonWindowZero ==
    (s1_season # <<>> /\ s1_last5 # <<>>) =>
        /\ td_calls[1].sent[Len(td_calls[1].sent)] = 0
        /\ td_calls[2].sent[Len(td_calls[2].sent)] = 5

HasRatings(data) ==
    /\ data["Advanced"] # <<>>
    /\ \A f \in {"OFF_RATING", "DEF_RATING", "PACE"} : data["Advanced"][1][f] # <<>>

\* C17: step_1_load_baseline_stats returns a baseline only when both
\* responses hold OFF_RATING, DEF_RATING and PACE in an Advanced table, and
\* raises otherwise; stage1_recency_weighting yields no ratings when a
\* response to one of the Advanced requests lacks them.
C17_MissingDataIsAnError ==
    /\ (s1_season # <<>> /\ s1_last5 # <<>>) =>
          IF HasRatings(s1_season[1]) /\ HasRatings(s1_last5[1])
          THEN s1_pc = "returned" /\ s1_baseline # <<>>
          ELSE s1_pc = "raised" /\ s1_baseline = <<>> /\ s1_error = "KeyError"
    /\ (/\ s1_pc = "sm_done"
        /\ \E k \in {2, 8} : sm_answers[k] = <<>> \/ ~HasRatings(sm_answers[k][1]))
          => sm_adjusted = <<>>

\* The adjustment the claim gives a team from its rest days and the
\* locations of its previous and current game (0.0 for negative rest days).
ClaimedRestAdj(rest_days, previous_location, current_location) ==
    (CASE rest_days = 0 -> -150
       [] rest_days = 1 -> 0
       [] rest_days = 2 -> 50
       [] rest_days >= 3 -> 100
       [] OTHER -> 0)
    + (IF rest_days >= 4 /\ previous_location = "away" /\ current_location = "home" THEN 25
       ELSE IF rest_days >= 4 /\ previous_location = "home" /\ current_location = "away" THEN -25
       ELSE 0)

PreviousLocation(last_game_data) ==
    IF last_game_data = <<>> THEN "unknown" ELSE last_game_data[1].home_or_away

ClaimedRestDiff ==
    ClaimedRestAdj(rest_result.rest_days_away[1], PreviousLocation(rest_input.last_away), "away")
    - ClaimedRestAdj(rest_result.rest_days_home[1], PreviousLocation(rest_input.last_home), "home")

ClaimedPaceAdj(pace_delta) ==
    CASE pace_delta > 400 -> 400
      [] pace_delta > 200 /\ pace_delta <= 400 -> 200
      [] pace_delta < -400 -> -400
      [] pace_delta >= -400 /\ pace_delta < -200 -> -200
      [] OTHER -> 0

ClaimedPaceDelta == pace_input.home_pace + pace_input.away_pace - 2 * 9850

C20_ProjectionInvariant ==
    pj_called =>
        /\ pj_result.home_points > pj_result.away_points
              => /\ pj_result.favorite_team = pj_result.home_team
                 /\ pj_result.underdog_team = pj_result.away_team
        /\ pj_result.away_points > pj_result.home_points
              => /\ pj_result.favorite_team = pj_result.away_team
                 /\ pj_result.underdog_team = pj_result.home_team
        /\ {pj_result.favorite_team, pj_result.underdog_team}
              = {pj_result.home_team, pj_result.away_team}
        /\ pj_result.favorite_spread = -Abs(pj_result.home_points - pj_result.away_points)
        /\ pj_result.favorite_spread <= 0
        /\ pj_result.underdog_spread = -pj_result.favorite_spread
        /\ pj_result.total = pj_result.home_points + pj_result.away_points

\* The tier of the claim's Filter D rule; mpg >= t is stated on whole
\* minutes and games, mpg being 0 when no game was played.
ClaimedTier(ps) ==
    LET mpg_at_least(t) == IF ps.games_played = 0 THEN 0 >= t
                           ELSE ps.minutes_played_season >= t * ps.games_played
    IN  CASE ps.minutes_played_season < 300 -> "Tier 4"
          [] OTHER ->
               CASE ps.usage_rate >= 280 /\ mpg_at_least(30) /\ Abs(ps.net_rating) >= 20
                        -> "Tier 1"
                 [] OTHER ->
                      CASE ps.usage_rate >= 220 /\ mpg_at_least(26) /\ Abs(ps.net_rating) >= 10
                               -> "Tier 2"
                        [] OTHER -> IF mpg_at_least(15) THEN "Tier 3" ELSE "Tier 4"

ProcessedSoFar ==
    LET rows == SelectSeq([i \in 1..Len(s3_outcomes) |-> i],
                          LAMBDA i : s3_outcomes[i] = "processed")
    IN  [k \in 1..Len(rows) |-> PlayerImpact(s3_roster[rows[k]])]

\* C22: a failure while fetching or processing one roster player skips only
\* that player: step 3 goes through every roster row, returns the reports of
\* all players that did not fail, those before and after a failing one
\* alike, and the team's pipeline goes on to steps 4, 5 and 6 with them.
C22_PlayerFailureSkipsOnlyThatPlayer ==
    /\ [](/\ s3_player_impacts = ProcessedSoFar
          /\ s3_pc = "returned" => Len(s3_outcomes) = Len(s3_roster)
          /\ s3_step >= 4 => s3_team_impacts = ProcessedSoFar)
    /\ (s3_pc = "loop") ~> (s3_step = 6)

\* The second of three players failed; the first and the third reached
\* step 6.
C22_Witness ==
    /\ s3_step = 6
    /\ Len(s3_roster) = 3
    /\ s3_outcomes = <<"processed", "fetch_raises", "processed">>
    /\ s3_team_impacts = <<PlayerImpact(TeamRoster[1]), PlayerImpact(TeamRoster[3])>>

\* The last-game fetch failed or returned no games.
NoLastGame(answer) == answer.kind = "raises" \/ Len(answer.rows) = 0

\* C23: when the last-game fetch of a team fails or returns no games, the
\* team has 2 rest days and a rest adjustment of +0.5 without location
\* bonus, and apply_rest_adjustment returns its result, the spread moved by
\* the difference of the two adjustments.
C23_FailedFetchDefaultsToTwoDays ==
    (adj_called = "rest" /\ rest_input.rest_adjustment_enabled) =>
        /\ NoLastGame(rest_input.home_answer) =>
              /\ rest_result.rest_days_home = <<2>>
              /\ rest_result.rest_adj_home = 50
        /\ NoLastGame(rest_input.away_answer) =>
              /\ rest_result.rest_days_away = <<2>>
              /\ rest_result.rest_adj_away = 50
        /\ rest_result.rest_adjustment_enabled
        /\ rest_result.rest_module_spread =
               10 * RoundHalfEven(rest_input.baseline_spread
                                  + rest_result.rest_adj_away - rest_result.rest_adj_home, 10)

\* The home team's fetch raised, the away team's log is empty.
C23_Witness ==
    /\ adj_called = "rest"
    /\ rest_input.rest_adjustment_enabled
    /\ rest_input.home_answer.kind = "raises"
    /\ rest_input.away_answer = [kind |-> "rows", rows |-> <<>>]
    /\ rest_input.baseline_spread = 333
    /\ rest_result.rest_adj_home = 50
    /\ rest_result.rest_adj_away = 50
    /\ rest_result.rest_module_spread = 330

\* The games of the file of a date.
ArchivedGames(files, date) ==
    IF files[date] = <<>> THEN {}
    ELSE {files[date][1].games[i] : i \in 1..Len(files[date][1].games)}

\* C24: saving predictions for a date that already has a file does not
\* discard what the file held: the games archived for the date by an
\* earlier run are still archived after a later run of the same day.
C24_ArchivedGamesAreKept ==
    [][\A date \in ArchiveDays : ArchivedGames(ar_files, date) \subseteq ArchivedGames(ar_files', date)]_vars

\* (home_score - away_score) + market_spread of the evaluated game, in tenths.
ClaimedAtsValue(row) ==
    10 * (ev_input.game_info.home_score - ev_input.game_info.away_score) + row.market_line

\* C25: a logged spread row is correct exactly when the side the model
\* deviates toward covered the market spread: home when model_spread <
\* market_spread, and then correct iff (home_score - away_score) +
\* market_spread > 0; away otherwise, and then correct iff that value is < 0;
\* a push is incorrect for either pick.
C25_SpreadCorrectness ==
    ev_op = "evaluate" =>
        \A k \in SpreadRows(ev_result) :
            LET row == ev_result[k]
            IN  /\ row.result_correct <=>
                      IF row.model_line < row.market_line THEN ClaimedAtsValue(row) > 0
                      ELSE ClaimedAtsValue(row) < 0
                /\ ClaimedAtsValue(row) = 0 => ~row.result_correct

\* A home pick that ends in a push: the home team, favoured by 2.0 in the
\* market and by 3.6 in the model, won by 2.
C25_Witness ==
    /\ ev_op = "evaluate"
    /\ SpreadRows(ev_result) # {}
    /\ ev_result[1].model_line = -36
    /\ ev_result[1].market_line = -20
    /\ ev_input.game_info.home_score - ev_input.game_info.away_score = 2
    /\ ~ev_result[1].result_correct

\* The calendar days between the last game of the answered log and the day
\* of the game.
DaysSinceLastGame(answer, game_date) ==
    (game_date \div HoursPerDay) - answer.rows[1].GAME_DATE

\* The rest days and adjustment the claim gives a team: 0 and -1.5 on a
\* back-to-back, 5 rest days after more than 30 days.
ClaimedRest(answer, game_date, rest_days, rest_adj) ==
    ~NoLastGame(answer) =>
        /\ DaysSinceLastGame(answer, game_date) = 1 =>
              rest_days = <<0>> /\ rest_adj = -150
        /\ DaysSinceLastGame(answer, game_date) > 30 => rest_days = <<5>>

\* C26: a team whose previous game was on the calendar day before the game
\* has rest_days = 0 and the adjustment -1.5 at whatever time of day the
\* pipeline runs; a last game more than 30 days before gives rest_days = 5.
C26_BackToBackIsZeroRestDays ==
    (adj_called = "rest" /\ rest_input.rest_adjustment_enabled) =>
        /\ ClaimedRest(rest_input.home_answer, rest_input.game_date,
                       rest_result.rest_days_home, rest_result.rest_adj_home)
        /\ ClaimedRest(rest_input.away_answer, rest_input.game_date,
                       rest_result.rest_days_away, rest_result.rest_adj_away)

\* Between any two per-player requests of the log there is a sleep.
Paced(events) ==
    \A i, j \in 1..Len(events) :
        (i < j /\ events[i] = "player_request" /\ events[j] = "player_request")
            => \E k \in (i + 1)..(j - 1) : events[k] = "sleep"

\* C27: between any two successive requests to the per-player stats
\* provider made while a team roster is iterated there is a pacing delay,
\* also after a player that was skipped or whose fetch failed.
C27_PacingDelayBetweenPlayerRequests ==
    /\ Paced(s3_events)
    /\ Paced(rs_events)

\* step 8 called with the arguments of the recorded call but the toggle.
Step8With(rest_adjustment) ==
    step_8_apply_rest_adjustment(s8_input.projection, s8_input.home_answer,
                                 s8_input.away_answer, s8_input.game_date, rest_adjustment)

\* C28: step_8_apply_rest_adjustment reports baseline_spread in the home
\* perspective, negative exactly when the home team is the favourite,
\* whether the rest toggle is on or off, and for the same projection the disabled rest_module_spread equals
\* the enabled one whenever both teams receive the same rest adjustment,
\* also when the away team is the favourite.
C28_OneSignConvention ==
    s8_called =>
        /\ s8_result.baseline_spread < 0
              <=> s8_input.projection.home_points > s8_input.projection.away_points
        /\ Step8With(TRUE).rest_adj_home = Step8With(TRUE).rest_adj_away
              => Step8With(FALSE).rest_module_spread = Step8With(TRUE).rest_module_spread

\* C29: for a roster player handled by step 3, the impact the processor
\* computes from the engine's on-court ratings is 0.7 times the estimated
\* impact (then capped by the tier), offensive and defensive alike; a player
\* whose estimated impact is 0 gets a computed impact of 0.
C29_ImpactIsSeventyPercentOfEstimate ==
    (ep_called /\ ep_result.eligible) =>
        /\ ep_result.calc[1] = Clamp(7 * ep_estimate.off_impact, 10 * TierCap(ep_result.tier))
        /\ ep_result.calc[2] = Clamp(7 * ep_estimate.def_impact, 10 * TierCap(ep_result.tier))

\* C30: after any number of runs of update_performance_log the log holds,
\* for each (date, game_id), at most one spread-type row and at most one
\* total-type row, whatever odds and predictions the runs read.
C30_OneRowPerGameAndMarket ==
    \A i, j \in 1..Len(log_rows) :
        (/\ i # j
         /\ log_rows[i].date = log_rows[j].date
         /\ log_rows[i].game_id = log_rows[j].game_id)
            => (i \in SpreadRows(log_rows)) # (j \in SpreadRows(log_rows))

====
